---- MODULE Spec2Model ----
(***************************************************************************)
(* A model of the operation-registry / query protocol of aiconfigurator's  *)
(* sdk.v2 package: Estimator strategies (estimator.py), the OperationV2    *)
(* base class and its kinds (operation_v2.py, operations/*.py) and the     *)
(* DatabaseV2 orchestrator (database_v2.py).                               *)
(*                                                                         *)
(* Python objects live in a heap: `ops` is the sequence of constructed     *)
(* operations (an operation's identity is its index), `ests` the estimator *)
(* objects.  Latencies, energies and scale factors are small integers, on  *)
(* which the code's float arithmetic is exact.  scipy's objects (cKDTree,  *)
(* LinearNDInterpolator, NearestNDInterpolator) are modelled by the sample *)
(* rows they are built from; the sample tables the model supplies are ones *)
(* those constructors accept.                                              *)
(***************************************************************************)
EXTENDS Integers, Sequences, FiniteSets, TLC

VARIABLES
    ops,        \* heap of OperationV2 instances, in construction order
    ests,       \* heap of Estimator instances: id -> object state
    registry,   \* DatabaseV2._operations: insertion-ordered <<name, op id>> pairs
    db,         \* DatabaseV2's backend, mode and system_spec
    pc,         \* where each worker stands inside DatabaseV2.query
    last        \* the last call made and what it returned or raised

vars == <<ops, ests, registry, db, pc, last>>

None == "None"

(***************************************************************************)
(* Python values.                                                          *)
(***************************************************************************)

\* **kwargs: a sequence of <<keyword, value>> pairs in the caller's order.
KwHas(kwargs, k) == \E i \in DOMAIN kwargs : kwargs[i][1] = k

KwGet(kwargs, k) == kwargs[CHOOSE i \in DOMAIN kwargs : kwargs[i][1] = k][2]

KwValues(kwargs) == [i \in DOMAIN kwargs |-> kwargs[i][2]]

Sorted(values) == SortSeq(values, LAMBDA u, v : u < v)

\* PerformanceResult(latency, energy); float(r) reads the latency and r1 + r2
\* adds latency and energy independently.
PerformanceResult(latency, energy) == [latency |-> latency, energy |-> energy]

PerfFloat(r) == r.latency

PerfAdd(r1, r2) ==
    PerformanceResult(r1.latency + r2.latency, r1.energy + r2.energy)

\* A flat_matrix is None or a 2-D array of rows [param_1 .. param_N, latency, energy].
NoMatrix == [present |-> FALSE, rows |-> <<>>]

Matrix(rows) == [present |-> TRUE, rows |-> rows]

RowPoint(row) == SubSeq(row, 1, Len(row) - 2)

RowLatency(row) == row[Len(row) - 1]

RowEnergy(row) == row[Len(row)]

\* An exact-match entry: {"latency": l} or {"latency": l, "energy": e}.
Entry(latency, energy) == [latency |-> latency, energy |-> <<energy>>]

EntryNoEnergy(latency) == [latency |-> latency, energy |-> <<>>]

\* entry.get("energy", 0.0)
EntryEnergy(entry) == IF entry.energy = <<>> THEN 0 ELSE entry.energy[1]

(***************************************************************************)
(* What a call returns or raises.  `calls` lists the operations whose      *)
(* query ran, `resolved` the <<name, operation>> lookups DatabaseV2.query   *)
(* made and `predicts` the <<estimator, kwargs>> predict calls, in order.  *)
(***************************************************************************)

Returned(result, calls, predicts) ==
    [status |-> "ok", result |-> <<result>>, detail |-> <<>>,
     calls |-> calls, resolved |-> <<>>, predicts |-> predicts]

Raised(error, detail, calls, predicts) ==
    [status |-> error, result |-> <<>>, detail |-> detail,
     calls |-> calls, resolved |-> <<>>, predicts |-> predicts]

NoOutcome ==
    [status |-> "none", result |-> <<>>, detail |-> <<>>,
     calls |-> <<>>, resolved |-> <<>>, predicts |-> <<>>]

(***************************************************************************)
(* estimator.py: the two Estimator strategies.  An estimator object is its *)
(* class, its _fitted flag and the rows its scipy objects were built from  *)
(* (points = rows[:, :-2], latencies = rows[:, -2], energies = rows[:, -1]).*)
(***************************************************************************)

NewEstimator(cls) == [cls |-> cls, _fitted |-> FALSE, rows |-> <<>>]

\* `flat_matrix is None or len(flat_matrix) == 0`
IsEmptyData(flat_matrix) == ~flat_matrix.present \/ Len(flat_matrix.rows) = 0

LinearInterpolatorFit(est, flat_matrix) ==
    IF IsEmptyData(flat_matrix)
    THEN est
    ELSE [est EXCEPT !._fitted = TRUE, !.rows = flat_matrix.rows]

\* A fit that marks the estimator fitted whatever it was given.
NearestNeighborFitAlways(est, flat_matrix) ==
    [est EXCEPT !._fitted = TRUE, !.rows = flat_matrix.rows]

NearestNeighborFit(est, flat_matrix) ==
    IF IsEmptyData(flat_matrix)
    THEN est
    ELSE [est EXCEPT !._fitted = TRUE, !.rows = flat_matrix.rows]

EstimatorFit(est, flat_matrix) ==
    IF est.cls = "LinearInterpolator"
    THEN LinearInterpolatorFit(est, flat_matrix)
    ELSE NearestNeighborFit(est, flat_matrix)

RECURSIVE SqDist(_, _)
SqDist(p, q) ==
    IF Len(p) = 0 THEN 0
    ELSE (p[1] - q[1]) * (p[1] - q[1]) + SqDist(Tail(p), Tail(q))

\* cKDTree.query / NearestNDInterpolator: the index of the closest sample
\* point; among equally close points the first row wins.
NearestIdx(rows, point) ==
    CHOOSE i \in DOMAIN rows :
        \A j \in DOMAIN rows :
            LET di == SqDist(RowPoint(rows[i]), point)
                dj == SqDist(RowPoint(rows[j]), point)
            IN  di < dj \/ (di = dj /\ i <= j)

\* Twice the signed area of the triangle a, b, c.
Cross(a, b, c) ==
    (b[1] - a[1]) * (c[2] - a[2]) - (b[2] - a[2]) * (c[1] - a[1])

\* LinearNDInterpolator over three affinely independent 2-D sample points
\* (their Delaunay triangulation is the one triangle): the barycentric
\* interpolation of `column` at `point`, or NaN -- the empty sequence --
\* outside the convex hull.
LinearND(rows, column, point) ==
    LET a  == RowPoint(rows[1])
        b  == RowPoint(rows[2])
        c  == RowPoint(rows[3])
        d  == Cross(a, b, c)
        nb == Cross(a, point, c)
        nc == Cross(a, b, point)
        na == d - nb - nc
        v(i) == rows[i][Len(rows[i]) - 2 + column]
    IN  IF na * d >= 0 /\ nb * d >= 0 /\ nc * d >= 0
        THEN <<(na * v(1) + nb * v(2) + nc * v(3)) \div d>>
        ELSE <<>>

IsNan(x) == x = <<>>

Predicted(latency, energy) ==
    [status |-> "ok", latency |-> latency, energy |-> energy]

\* ValueError("... has not been fitted yet.")
NotFitted == [status |-> "NotFitted", latency |-> 0, energy |-> 0]

\* scipy's ValueError for a query point whose length is not the sample points'.
ShapeError == [status |-> "ShapeError", latency |-> 0, energy |-> 0]

SameShape(rows, point) == Len(point) = Len(RowPoint(rows[1]))

\* An interpolator that answers a point outside the hull with the first
\* sample.
LinearInterpolatorPredictFirstRow(est, kwargs) ==
    IF ~est._fitted THEN NotFitted
    ELSE IF ~SameShape(est.rows, KwValues(kwargs)) THEN ShapeError
    ELSE LET point   == KwValues(kwargs)
             latency == LinearND(est.rows, 1, point)
             energy  == LinearND(est.rows, 2, point)
         IN  IF IsNan(latency)
             THEN Predicted(RowLatency(est.rows[1]), RowEnergy(est.rows[1]))
             ELSE Predicted(latency[1], energy[1])

\* point = np.array([list(kwargs.values())])
LinearInterpolatorPredict(est, kwargs) ==
    IF ~est._fitted THEN NotFitted
    ELSE IF ~SameShape(est.rows, KwValues(kwargs)) THEN ShapeError
    ELSE LET point   == KwValues(kwargs)
             latency == LinearND(est.rows, 1, point)
             energy  == LinearND(est.rows, 2, point)
             idx     == NearestIdx(est.rows, point)
         IN  IF IsNan(latency)
             THEN Predicted(RowLatency(est.rows[idx]), RowEnergy(est.rows[idx]))
             ELSE Predicted(latency[1], energy[1])

\* A nearest neighbour that reads the energy of the first sample.
NearestNeighborPredictMixedRows(est, kwargs) ==
    IF ~est._fitted THEN NotFitted
    ELSE IF ~SameShape(est.rows, KwValues(kwargs)) THEN ShapeError
    ELSE LET point == KwValues(kwargs)
             idx   == NearestIdx(est.rows, point)
         IN  Predicted(RowLatency(est.rows[idx]), RowEnergy(est.rows[1]))

NearestNeighborPredict(est, kwargs) ==
    IF ~est._fitted THEN NotFitted
    ELSE IF ~SameShape(est.rows, KwValues(kwargs)) THEN ShapeError
    ELSE LET point == KwValues(kwargs)
             idx   == NearestIdx(est.rows, point)
         IN  Predicted(RowLatency(est.rows[idx]), RowEnergy(est.rows[idx]))

EstimatorPredict(est, kwargs) ==
    IF est.cls = "LinearInterpolator"
    THEN LinearInterpolatorPredict(est, kwargs)
    ELSE NearestNeighborPredict(est, kwargs)

(***************************************************************************)
(* Operation kinds.  An operation object is                                *)
(*   [kind, cfg, estimator, scale_factor, exact_match_dict, flat_matrix]   *)
(* where cfg holds the kind's static configuration under the source's      *)
(* attribute names.  The kind "stub" is the tests' _StubOperation (and its *)
(* subclass _WithMatrix): its load_data returns what the test gave it.     *)
(***************************************************************************)

EmptyDict == <<>>

\* A load_data that finds a row under the empty key.
LoadDataWithRow(kind, cfg) ==
    IF kind = "stub"
    THEN <<cfg._data, cfg.mat>>
    ELSE <<(<<>> :> Entry(0, 0)), NoMatrix>>

\* load_data(): every concrete kind returns ({}, None) (gemm.py 54-58, ...);
\* _StubOperation returns (self._data, None), _WithMatrix ({}, mat).
LoadData(kind, cfg) ==
    IF kind = "stub"
    THEN <<cfg._data, cfg.mat>>
    ELSE <<EmptyDict, NoMatrix>>

\* The keyword a kind's get_lookup_key subscripts (kwargs["M"], kwargs["x"]);
\* a missing one is a KeyError.
RequiredKeyword(kind) ==
    CASE kind = "gemm"             -> <<"M">>
      [] kind = "custom_allreduce" -> <<"x">>
      [] kind = "p2p"              -> <<"x">>
      [] kind = "nccl"             -> <<"x">>
      [] kind = "elementwise"      -> <<"x">>
      [] kind = "embedding"        -> <<"x">>
      [] kind = "moe"              -> <<"x">>
      [] kind \in {"context_attention", "generation_attention",
                   "context_mla", "generation_mla"}
                                   -> <<"batch_size", "s">>
      [] kind = "mla_bmm"          -> <<"batch_size">>
      [] OTHER                     -> <<>>

MissingKeyword(kind, kwargs) ==
    \E i \in DOMAIN RequiredKeyword(kind) : ~KwHas(kwargs, RequiredKeyword(kind)[i])

StubGetLookupKey(op, kwargs) == Sorted(KwValues(kwargs))

\* A key built from the caller's M as given.
GemmGetLookupKeyRawM(op, kwargs) ==
    <<op.cfg._quant_mode.name, KwGet(kwargs, "M"), op.cfg._n, op.cfg._k>>

GemmGetLookupKey(op, kwargs) ==
    LET m == KwGet(kwargs, "M") \div op.cfg._scale_num_tokens
    IN  <<op.cfg._quant_mode.name, m, op.cfg._n, op.cfg._k>>

CustomAllReduceGetLookupKey(op, kwargs) ==
    LET size == KwGet(kwargs, "x") * op.cfg._h
    IN  <<"half", op.cfg._tp_size, size>>

P2PGetLookupKey(op, kwargs) ==
    LET size      == KwGet(kwargs, "x") * op.cfg._h
        p2p_bytes == size * 2
    IN  <<p2p_bytes>>

\* A collective whose message size is counted in bytes.
NcclGetLookupKeyInBytes(op, kwargs) ==
    LET message_size == KwGet(kwargs, "x") * op.cfg._num_elements_per_token
                            * op.cfg._comm_quant_mode.memory
    IN  <<op.cfg._comm_quant_mode.name, op.cfg._nccl_op, op.cfg._num_gpus,
          message_size>>

NcclGetLookupKey(op, kwargs) ==
    LET message_size == KwGet(kwargs, "x") * op.cfg._num_elements_per_token
    IN  <<op.cfg._comm_quant_mode.name, op.cfg._nccl_op, op.cfg._num_gpus,
          message_size>>

ElementWiseGetLookupKey(op, kwargs) ==
    LET x           == KwGet(kwargs, "x") \div op.cfg._scale_num_tokens
        read_bytes  == x * op.cfg._dim_in * 2
        write_bytes == x * op.cfg._dim_out * 2
    IN  <<read_bytes + write_bytes>>

EmbeddingGetLookupKey(op, kwargs) ==
    LET x         == KwGet(kwargs, "x")
        d2d_bytes == x * op.cfg._column_size * 2
    IN  <<d2d_bytes>>

\* A mixture-of-experts key that keeps the constructed quantization mode
\* whatever the caller passes.
MoEGetLookupKeyConstructedMode(op, kwargs) ==
    <<KwGet(kwargs, "x") * op.cfg._attention_dp_size,
      op.cfg._hidden_size, op.cfg._inter_size, op.cfg._topk,
      op.cfg._num_experts, op.cfg._moe_tp_size, op.cfg._moe_ep_size,
      op.cfg._quant_mode.name,
      op.cfg._workload_distribution, op.cfg._is_context>>

\* MoEV2.get_lookup_key: quant_mode may be overridden by the caller; its
\* name is used when it has one, str(quant_mode) otherwise.
MoEGetLookupKey(op, kwargs) ==
    LET x          == KwGet(kwargs, "x") * op.cfg._attention_dp_size
        quant_mode == IF KwHas(kwargs, "quant_mode")
                      THEN KwGet(kwargs, "quant_mode")
                      ELSE op.cfg._quant_mode
    IN  <<x, op.cfg._hidden_size, op.cfg._inter_size, op.cfg._topk,
          op.cfg._num_experts, op.cfg._moe_tp_size, op.cfg._moe_ep_size,
          IF "name" \in DOMAIN quant_mode THEN quant_mode.name ELSE quant_mode.str,
          op.cfg._workload_distribution, op.cfg._is_context>>

\* kwargs.get(k, default)
KwGetOr(kwargs, k, default) ==
    IF KwHas(kwargs, k) THEN KwGet(kwargs, k) ELSE default

ContextAttentionGetLookupKey(op, kwargs) ==
    <<KwGet(kwargs, "batch_size"), KwGet(kwargs, "s"),
      KwGetOr(kwargs, "prefix", 0),
      op.cfg._n, op.cfg._n_kv, op.cfg._kvcache_quant_mode.name,
      op.cfg._fmha_quant_mode.name, op.cfg._window_size, op.cfg._head_size>>

GenerationAttentionGetLookupKey(op, kwargs) ==
    <<KwGet(kwargs, "batch_size"), KwGet(kwargs, "s"),
      op.cfg._n, op.cfg._n_kv, op.cfg._kv_cache_dtype.name,
      op.cfg._window_size, op.cfg._head_size>>

ContextMLAGetLookupKey(op, kwargs) ==
    <<KwGet(kwargs, "batch_size"), KwGet(kwargs, "s"),
      KwGetOr(kwargs, "prefix", 0),
      op.cfg._num_heads, op.cfg._kvcache_quant_mode.name,
      op.cfg._fmha_quant_mode.name>>

GenerationMLAGetLookupKey(op, kwargs) ==
    <<KwGet(kwargs, "batch_size"), KwGet(kwargs, "s"),
      op.cfg._num_heads, op.cfg._kv_cache_dtype.name>>

MLABmmGetLookupKey(op, kwargs) ==
    <<KwGet(kwargs, "batch_size"), op.cfg._num_heads,
      op.cfg._quant_mode.name, op.cfg._if_pre>>

CompositeGetLookupKey(op, kwargs) == <<>>

GetLookupKey(op, kwargs) ==
    CASE op.kind = "stub"             -> StubGetLookupKey(op, kwargs)
      [] op.kind = "gemm"             -> GemmGetLookupKey(op, kwargs)
      [] op.kind = "custom_allreduce" -> CustomAllReduceGetLookupKey(op, kwargs)
      [] op.kind = "p2p"              -> P2PGetLookupKey(op, kwargs)
      [] op.kind = "nccl"             -> NcclGetLookupKey(op, kwargs)
      [] op.kind = "elementwise"      -> ElementWiseGetLookupKey(op, kwargs)
      [] op.kind = "embedding"        -> EmbeddingGetLookupKey(op, kwargs)
      [] op.kind = "moe"              -> MoEGetLookupKey(op, kwargs)
      [] op.kind = "context_attention" ->
             ContextAttentionGetLookupKey(op, kwargs)
      [] op.kind = "generation_attention" ->
             GenerationAttentionGetLookupKey(op, kwargs)
      [] op.kind = "context_mla"      -> ContextMLAGetLookupKey(op, kwargs)
      [] op.kind = "generation_mla"   -> GenerationMLAGetLookupKey(op, kwargs)
      [] op.kind = "mla_bmm"          -> MLABmmGetLookupKey(op, kwargs)
      [] OTHER                        -> CompositeGetLookupKey(op, kwargs)

\* get_weights: 0.0 by default; the kinds that own weights return the byte
\* count fixed in __init__ times scale_factor.
BaseGetWeights(op) == 0

\* GemmV2.__init__: self._weights = n * k * quant_mode.value.memory
GemmWeights(cfg) == cfg._n * cfg._k * cfg._quant_mode.memory

GemmGetWeights(op) == GemmWeights(op.cfg) * op.scale_factor

\* EmbeddingV2.__init__: self._weights = row_size * column_size * 2
EmbeddingWeights(cfg) == cfg._row_size * cfg._column_size * 2

EmbeddingGetWeights(op) == EmbeddingWeights(op.cfg) * op.scale_factor

\* MoEV2.__init__: num_gemms = 3 if is_gated else 2, and
\* self._weights = hidden_size * inter_size * num_experts
\*                 * quant_mode.value.memory * num_gemms
\*                 // moe_ep_size // moe_tp_size
MoEWeights(cfg) ==
    LET num_gemms == IF cfg._is_gated THEN 3 ELSE 2
    IN  ((cfg._hidden_size * cfg._inter_size * cfg._num_experts
            * cfg._quant_mode.memory * num_gemms)
         \div cfg._moe_ep_size) \div cfg._moe_tp_size

MoEGetWeights(op) == MoEWeights(op.cfg) * op.scale_factor

\* A matrix multiply that reports its element count as its weights.
GetWeightsInElements(op, kwargs) ==
    CASE op.kind = "gemm"      -> op.cfg._n * op.cfg._k * op.scale_factor
      [] op.kind = "embedding" -> EmbeddingGetWeights(op)
      [] op.kind = "moe"       -> MoEGetWeights(op)
      [] OTHER                 -> BaseGetWeights(op)

GetWeights(op, kwargs) ==
    CASE op.kind = "gemm"      -> GemmGetWeights(op)
      [] op.kind = "embedding" -> EmbeddingGetWeights(op)
      [] op.kind = "moe"       -> MoEGetWeights(op)
      [] OTHER                 -> BaseGetWeights(op)

\* An exact match returned as stored, the scale factor forgotten.
ExactMatchUnscaled(op, key) ==
    LET entry == op.exact_match_dict[key]
    IN  PerformanceResult(entry.latency, EntryEnergy(entry))

\* The exact-match branch of query: entry["latency"] * scale_factor and
\* entry.get("energy", 0.0) * scale_factor.
ExactMatch(op, key) ==
    LET entry == op.exact_match_dict[key]
    IN  PerformanceResult(entry.latency * op.scale_factor,
                          EntryEnergy(entry) * op.scale_factor)

\* An estimator branch that asks an element-wise operation's estimator at
\* the token count of the key.
EstimatorFallbackAtKeyTokens(id, kwargs) ==
    LET op == ops[id]
        at == IF op.kind = "elementwise"
              THEN << <<"x", KwGet(kwargs, "x") \div op.cfg._scale_num_tokens>> >>
              ELSE kwargs
        p  == EstimatorPredict(ests[op.estimator], at)
    IN  IF p.status = "ok"
        THEN Returned(PerformanceResult(p.latency * op.scale_factor,
                                        p.energy * op.scale_factor),
                      <<id>>, <<<<op.estimator, at>>>>)
        ELSE Raised(p.status, <<>>, <<id>>, <<<<op.estimator, at>>>>)

\* The estimator branch: (latency, energy) = estimator.predict(**kwargs), scaled.
EstimatorFallback(id, kwargs) ==
    LET op == ops[id]
        p  == EstimatorPredict(ests[op.estimator], kwargs)
    IN  IF p.status = "ok"
        THEN Returned(PerformanceResult(p.latency * op.scale_factor,
                                        p.energy * op.scale_factor),
                      <<id>>, <<<<op.estimator, kwargs>>>>)
        ELSE Raised(p.status, <<>>, <<id>>, <<<<op.estimator, kwargs>>>>)

\* A query that answers (0, 0) where it has neither a row nor an estimator.
BaseQueryZeroOnMiss(id, kwargs) ==
    LET op  == ops[id]
        key == GetLookupKey(op, kwargs)
    IN  IF MissingKeyword(op.kind, kwargs)
        THEN Raised("KeyError", RequiredKeyword(op.kind), <<id>>, <<>>)
        ELSE IF key \in DOMAIN op.exact_match_dict
        THEN Returned(ExactMatch(op, key), <<id>>, <<>>)
        ELSE IF op.estimator # None
        THEN EstimatorFallback(id, kwargs)
        ELSE Returned(PerformanceResult(0, 0), <<id>>, <<>>)

\* OperationV2.query
BaseQuery(id, kwargs) ==
    LET op  == ops[id]
        key == GetLookupKey(op, kwargs)
    IN  IF MissingKeyword(op.kind, kwargs)
        THEN Raised("KeyError", RequiredKeyword(op.kind), <<id>>, <<>>)
        ELSE IF key \in DOMAIN op.exact_match_dict
        THEN Returned(ExactMatch(op, key), <<id>>, <<>>)
        ELSE IF op.estimator # None
        THEN EstimatorFallback(id, kwargs)
        ELSE Raised("LookupMiss", key, <<id>>, <<>>)

\* A matrix multiply whose estimator is given the caller's M undivided.
GemmQueryRawM(id, kwargs) ==
    LET op  == ops[id]
        key == GetLookupKey(op, kwargs)
    IN  IF MissingKeyword(op.kind, kwargs)
        THEN Raised("KeyError", RequiredKeyword(op.kind), <<id>>, <<>>)
        ELSE IF key \in DOMAIN op.exact_match_dict
        THEN Returned(ExactMatch(op, key), <<id>>, <<>>)
        ELSE IF op.estimator # None
        THEN EstimatorFallback(id,
                 << <<"M", KwGet(kwargs, "M")>>,
                    <<"N", op.cfg._n>>, <<"K", op.cfg._k>> >>)
        ELSE Raised("LookupMiss", key, <<id>>, <<>>)

\* GemmV2.query: the estimator is given M // scale_num_tokens, N, K.
GemmQuery(id, kwargs) ==
    LET op  == ops[id]
        key == GetLookupKey(op, kwargs)
    IN  IF MissingKeyword(op.kind, kwargs)
        THEN Raised("KeyError", RequiredKeyword(op.kind), <<id>>, <<>>)
        ELSE IF key \in DOMAIN op.exact_match_dict
        THEN Returned(ExactMatch(op, key), <<id>>, <<>>)
        ELSE IF op.estimator # None
        THEN EstimatorFallback(id,
                 << <<"M", KwGet(kwargs, "M") \div op.cfg._scale_num_tokens>>,
                    <<"N", op.cfg._n>>, <<"K", op.cfg._k>> >>)
        ELSE Raised("LookupMiss", key, <<id>>, <<>>)

\* A custom all-reduce without its single-participant shortcut.
CustomAllReduceQueryNoShortcut(id, kwargs) == BaseQuery(id, kwargs)

CustomAllReduceQuery(id, kwargs) ==
    IF ops[id].cfg._tp_size = 1
    THEN Returned(PerformanceResult(0, 0), <<id>>, <<>>)
    ELSE BaseQuery(id, kwargs)

P2PQuery(id, kwargs) ==
    IF ops[id].cfg._pp_size = 1
    THEN Returned(PerformanceResult(0, 0), <<id>>, <<>>)
    ELSE BaseQuery(id, kwargs)

\* MoEDispatchV2.query: `return PerformanceResult(0.0, energy=0.0)`.
MoEDispatchQuery(id, kwargs) ==
    Returned(PerformanceResult(0, 0), <<id>>, <<>>)

(***************************************************************************)
(* DatabaseV2: the registry is an insertion-ordered dict.                  *)
(***************************************************************************)

DictHas(dict, name) == \E i \in DOMAIN dict : dict[i][1] = name

DictGet(dict, name) == dict[CHOOSE i \in DOMAIN dict : dict[i][1] = name][2]

\* A registry that adds a second binding instead of replacing the first.
DictSetAppend(dict, name, id) == Append(dict, <<name, id>>)

\* dict[name] = id: an existing key keeps its place, a new one goes last.
DictSet(dict, name, id) ==
    IF DictHas(dict, name)
    THEN [i \in DOMAIN dict |-> IF dict[i][1] = name THEN <<name, id>> ELSE dict[i]]
    ELSE Append(dict, <<name, id>>)

\* A pop that drops the newest binding when the key is unknown.
DictWithoutOrLast(dict, name) ==
    IF DictHas(dict, name) \/ dict = <<>>
    THEN SelectSeq(dict, LAMBDA e : e[1] # name)
    ELSE SubSeq(dict, 1, Len(dict) - 1)

\* dict.pop(name, None): the dict without the key.
DictWithout(dict, name) == SelectSeq(dict, LAMBDA e : e[1] # name)

\* A bulk registration that stops after the first entry.
DictUpdateFirstOnly(dict, mapping) ==
    IF mapping = <<>> THEN dict
    ELSE DictSet(dict, mapping[1][1], mapping[1][2])

\* `for name, op in ops.items(): self.register_operation(name, op)`
RECURSIVE DictUpdate(_, _)
DictUpdate(dict, mapping) ==
    IF mapping = <<>> THEN dict
    ELSE DictUpdate(DictSet(dict, mapping[1][1], mapping[1][2]), Tail(mapping))

\* A membership test that only asks whether anything is registered.
HasOperationAny(name) == registry # <<>>

\* has_operation
HasOperation(name) == DictHas(registry, name)

\* get_operation: <<>> stands for None, <<id>> for the instance.
GetOperation(name) ==
    IF DictHas(registry, name) THEN <<DictGet(registry, name)>> ELSE <<>>

\* A listing that misses the newest name.
RegisteredOperationsStale ==
    [i \in 1..(Len(registry) - 1) |-> registry[i][1]]

\* registered_operations: list(self._operations)
RegisteredOperations == [i \in DOMAIN registry |-> registry[i][1]]

(***************************************************************************)
(* Query routing.  DatabaseV2.query and a composite's query call each      *)
(* other; `depth` is the number of Python frames left before the           *)
(* interpreter raises RecursionError.                                      *)
(***************************************************************************)

RECURSIVE OperationQuery(_, _, _)
RECURSIVE DatabaseQuery(_, _, _)
RECURSIVE StubCompositeLoop(_, _, _, _, _)

\* DatabaseV2.query
DatabaseQuery(op_name, kwargs, depth) ==
    IF ~DictHas(registry, op_name)
    THEN Raised("UnregisteredOperation", <<op_name, RegisteredOperations>>, <<>>, <<>>)
    ELSE LET id == DictGet(registry, op_name)
         IN  [OperationQuery(id, kwargs, depth)
                 EXCEPT !.resolved = <<<<op_name, id>>>> \o @]

\* A slip in the return statement: the energy is left unscaled.
StubCompositeResultEnergyUnscaled(op, total) ==
    PerformanceResult(PerfFloat(total) * op.scale_factor, total.energy)

\* _StubComposite.query's return statement.
StubCompositeResult(op, total) ==
    PerformanceResult(PerfFloat(total) * op.scale_factor,
                      total.energy * op.scale_factor)

\* _StubComposite.query: `for sub in self.sub_operations`, from the i-th on,
\* with `total` and the calls made so far.
StubCompositeLoop(id, i, kwargs, depth, acc) ==
    LET op == ops[id]
    IN  IF i > Len(op.cfg.sub_operations)
        THEN [Returned(StubCompositeResult(op, acc.total), acc.calls, acc.predicts)
                 EXCEPT !.resolved = acc.resolved]
        ELSE LET result == DatabaseQuery(op.cfg.sub_operations[i], kwargs, depth)
             IN  IF result.status # "ok"
                 THEN [Raised(result.status, result.detail,
                              acc.calls \o result.calls,
                              acc.predicts \o result.predicts)
                          EXCEPT !.resolved = acc.resolved \o result.resolved]
                 ELSE StubCompositeLoop(id, i + 1, kwargs, depth,
                          [total    |-> PerfAdd(acc.total, result.result[1]),
                           calls    |-> acc.calls \o result.calls,
                           resolved |-> acc.resolved \o result.resolved,
                           predicts |-> acc.predicts \o result.predicts])

\* A composite that swallows a failing sub-query and sums the others.
RECURSIVE StubCompositeLoopPartial(_, _, _, _, _)
StubCompositeLoopPartial(id, i, kwargs, depth, acc) ==
    LET op == ops[id]
    IN  IF i > Len(op.cfg.sub_operations)
        THEN [Returned(StubCompositeResult(op, acc.total), acc.calls, acc.predicts)
                 EXCEPT !.resolved = acc.resolved]
        ELSE LET result == DatabaseQuery(op.cfg.sub_operations[i], kwargs, depth)
             IN  StubCompositeLoopPartial(id, i + 1, kwargs, depth,
                     [total    |-> IF result.status = "ok"
                                   THEN PerfAdd(acc.total, result.result[1])
                                   ELSE acc.total,
                      calls    |-> acc.calls \o result.calls,
                      resolved |-> acc.resolved \o result.resolved,
                      predicts |-> acc.predicts \o result.predicts])

StubCompositeQueryPartial(id, kwargs, depth) ==
    StubCompositeLoopPartial(id, 1, kwargs, depth,
        [total |-> PerformanceResult(0, 0), calls |-> <<id>>,
         resolved |-> <<>>, predicts |-> <<>>])

StubCompositeQuery(id, kwargs, depth) ==
    StubCompositeLoop(id, 1, kwargs, depth,
        [total |-> PerformanceResult(0, 0), calls |-> <<id>>,
         resolved |-> <<>>, predicts |-> <<>>])

\* A dispatch that answers (0, 0) where the interpreter would give up.
OperationQueryCutsCycle(id, kwargs, depth) ==
    IF depth = 0
    THEN Returned(PerformanceResult(0, 0), <<id>>, <<>>)
    ELSE CASE ops[id].kind = "gemm"             -> GemmQuery(id, kwargs)
           [] ops[id].kind = "custom_allreduce" -> CustomAllReduceQuery(id, kwargs)
           [] ops[id].kind = "p2p"              -> P2PQuery(id, kwargs)
           [] ops[id].kind = "stub_composite"   -> StubCompositeQuery(id, kwargs, depth - 1)
           [] ops[id].kind = "moe_dispatch"     -> MoEDispatchQuery(id, kwargs)
           [] OTHER                             -> BaseQuery(id, kwargs)

\* op.query(**kwargs), dispatched on the object's class.
OperationQuery(id, kwargs, depth) ==
    IF depth = 0
    THEN Raised("RecursionError", <<>>, <<id>>, <<>>)
    ELSE CASE ops[id].kind = "gemm"             -> GemmQuery(id, kwargs)
           [] ops[id].kind = "custom_allreduce" -> CustomAllReduceQuery(id, kwargs)
           [] ops[id].kind = "p2p"              -> P2PQuery(id, kwargs)
           [] ops[id].kind = "stub_composite"   -> StubCompositeQuery(id, kwargs, depth - 1)
           [] ops[id].kind = "moe_dispatch"     -> MoEDispatchQuery(id, kwargs)
           [] OTHER                             -> BaseQuery(id, kwargs)

(***************************************************************************)
(* The calls made on the objects, one action each.                         *)
(***************************************************************************)

Call(call, name, op, kwargs, ret, out) ==
    [call |-> call, name |-> name, op |-> op, kwargs |-> kwargs,
     ret |-> ret, out |-> out]

\* A constructor that loads the data and leaves the estimator as it was.
OperationInitNoFit(limit, kind, cfg, estimator, scale_factor) ==
    LET data == LoadData(kind, cfg)
        self == [kind |-> kind, cfg |-> cfg, estimator |-> estimator,
                 scale_factor |-> scale_factor,
                 exact_match_dict |-> data[1], flat_matrix |-> data[2]]
    IN  /\ Len(ops) < limit
        /\ ops' = Append(ops, self)
        /\ last' = Call("__init__", "", Len(ops) + 1, <<>>, <<>>, NoOutcome)
        /\ UNCHANGED <<ests, registry, db, pc>>

\* OperationV2.__init__: the attributes, load_data, then the estimator's fit.
\* A constructor that fits the estimator only if nothing has fitted it yet.
OperationInitFitOnce(limit, kind, cfg, estimator, scale_factor) ==
    LET data == LoadData(kind, cfg)
        self == [kind |-> kind, cfg |-> cfg, estimator |-> estimator,
                 scale_factor |-> scale_factor,
                 exact_match_dict |-> data[1], flat_matrix |-> data[2]]
    IN  /\ Len(ops) < limit
        /\ ops' = Append(ops, self)
        /\ ests' = IF self.estimator # None /\ self.flat_matrix.present
                      /\ ~ests[estimator]._fitted
                   THEN [ests EXCEPT ![estimator] = EstimatorFit(@, self.flat_matrix)]
                   ELSE ests
        /\ last' = Call("__init__", "", Len(ops) + 1, <<>>, <<>>, NoOutcome)
        /\ UNCHANGED <<registry, db, pc>>

OperationInit(limit, kind, cfg, estimator, scale_factor) ==
    LET data == LoadData(kind, cfg)
        self == [kind |-> kind, cfg |-> cfg, estimator |-> estimator,
                 scale_factor |-> scale_factor,
                 exact_match_dict |-> data[1], flat_matrix |-> data[2]]
    IN  /\ Len(ops) < limit
        /\ ops' = Append(ops, self)
        /\ ests' = IF self.estimator # None /\ self.flat_matrix.present
                   THEN [ests EXCEPT ![estimator] = EstimatorFit(@, self.flat_matrix)]
                   ELSE ests
        /\ last' = Call("__init__", "", Len(ops) + 1, <<>>, <<>>, NoOutcome)
        /\ UNCHANGED <<registry, db, pc>>

\* CompositeOperationV2.__init__: no data is loaded and there is no estimator.
CompositeInit(limit, sub_operations, scale_factor) ==
    LET self == [kind |-> "stub_composite",
                 cfg |-> [sub_operations |-> sub_operations],
                 estimator |-> None, scale_factor |-> scale_factor,
                 exact_match_dict |-> EmptyDict, flat_matrix |-> NoMatrix]
    IN  /\ Len(ops) < limit
        /\ ops' = Append(ops, self)
        /\ last' = Call("__init__", "", Len(ops) + 1, <<>>, <<>>, NoOutcome)
        /\ UNCHANGED <<ests, registry, db, pc>>

\* MoEDispatchV2.__init__: the static configuration, then
\* CompositeOperationV2.__init__ with sub_operations ["nccl", "custom_allreduce"].
MoEDispatchInit(limit, cfg, scale_factor) ==
    LET self == [kind |-> "moe_dispatch",
                 cfg |-> [_hidden_size |-> cfg.hidden_size,
                          _topk |-> cfg.topk,
                          _num_experts |-> cfg.num_experts,
                          _moe_tp_size |-> cfg.moe_tp_size,
                          _moe_ep_size |-> cfg.moe_ep_size,
                          _attention_dp_size |-> cfg.attention_dp_size,
                          _pre_dispatch |-> cfg.pre_dispatch,
                          _attention_tp_size |->
                              (cfg.moe_tp_size * cfg.moe_ep_size)
                                  \div cfg.attention_dp_size,
                          num_gpus |-> cfg.moe_ep_size * cfg.moe_tp_size,
                          sub_operations |-> <<"nccl", "custom_allreduce">>],
                 estimator |-> None, scale_factor |-> scale_factor,
                 exact_match_dict |-> EmptyDict, flat_matrix |-> NoMatrix]
    IN  /\ Len(ops) < limit
        /\ ops' = Append(ops, self)
        /\ last' = Call("__init__", "", Len(ops) + 1, <<>>, <<>>, NoOutcome)
        /\ UNCHANGED <<ests, registry, db, pc>>

\* `gemm.exact_match_dict = {...}`: the tests inject rows into a constructed
\* operation of a concrete kind.
InjectData(id, dict) ==
    /\ id \in DOMAIN ops
    /\ ops[id].kind \notin {"stub", "stub_composite", "moe_dispatch"}
    /\ ops' = [ops EXCEPT ![id].exact_match_dict = dict]
    /\ last' = Call("inject", "", id, <<>>, <<>>, NoOutcome)
    /\ UNCHANGED <<ests, registry, db, pc>>

\* A query that keeps its answer in the exact-match index.
QueryOperationMemo(id, kwargs, depth) ==
    LET out == OperationQuery(id, kwargs, depth)
    IN  /\ id \in DOMAIN ops
        /\ last' = Call("op.query", "", id, kwargs, <<>>, out)
        /\ ops' = IF out.status = "ok"
                  THEN [ops EXCEPT ![id].exact_match_dict =
                           (GetLookupKey(ops[id], kwargs)
                              :> Entry(out.result[1].latency, out.result[1].energy))
                           @@ @]
                  ELSE ops
        /\ UNCHANGED <<ests, registry, db, pc>>

\* op.query(**kwargs) called on the object
QueryOperation(id, kwargs, depth) ==
    /\ id \in DOMAIN ops
    /\ last' = Call("op.query", "", id, kwargs, <<>>, OperationQuery(id, kwargs, depth))
    /\ UNCHANGED <<ops, ests, registry, db, pc>>

\* OperationV2.query(op, **kwargs): the base class's query applied to an
\* object of any kind.
QueryBase(id, kwargs) ==
    /\ id \in DOMAIN ops
    /\ last' = Call("base.query", "", id, kwargs, <<>>, BaseQuery(id, kwargs))
    /\ UNCHANGED <<ops, ests, registry, db, pc>>

\* op.load_data() called on a constructed object: the pair is returned and
\* nothing is assigned.
CallLoadData(id) ==
    /\ id \in DOMAIN ops
    /\ last' = Call("load_data", "", id, <<>>, <<>>,
                    Returned(LoadData(ops[id].kind, ops[id].cfg), <<id>>, <<>>))
    /\ UNCHANGED <<ops, ests, registry, db, pc>>

\* op.get_lookup_key(**kwargs)
CallGetLookupKey(id, kwargs) ==
    /\ id \in DOMAIN ops
    /\ last' = Call("get_lookup_key", "", id, kwargs, <<>>,
                    IF MissingKeyword(ops[id].kind, kwargs)
                    THEN Raised("KeyError", RequiredKeyword(ops[id].kind),
                                <<id>>, <<>>)
                    ELSE Returned(GetLookupKey(ops[id], kwargs), <<id>>, <<>>))
    /\ UNCHANGED <<ops, ests, registry, db, pc>>

\* op.get_weights(**kwargs)
CallGetWeights(id, kwargs) ==
    /\ id \in DOMAIN ops
    /\ last' = Call("get_weights", "", id, kwargs, <<>>,
                    Returned(GetWeights(ops[id], kwargs), <<id>>, <<>>))
    /\ UNCHANGED <<ops, ests, registry, db, pc>>

\* db.query(op_name, **kwargs)
QueryDatabase(op_name, kwargs, depth) ==
    /\ last' = Call("db.query", op_name, 0, kwargs, <<>>,
                    DatabaseQuery(op_name, kwargs, depth))
    /\ UNCHANGED <<ops, ests, registry, db, pc>>

\* A registration that drops the names bound to the same instance.
RegisterOperationUnique(name, id) ==
    /\ id \in DOMAIN ops
    /\ registry' = DictSet(SelectSeq(registry, LAMBDA e : e[2] # id \/ e[1] = name),
                           name, id)
    /\ last' = Call("register", name, id, <<>>, GetOperation(name), NoOutcome)
    /\ UNCHANGED <<ops, ests, db, pc>>

\* db.register_operation(name, op)
RegisterOperation(name, id) ==
    /\ id \in DOMAIN ops
    /\ registry' = DictSet(registry, name, id)
    /\ last' = Call("register", name, id, <<>>, GetOperation(name), NoOutcome)
    /\ UNCHANGED <<ops, ests, db, pc>>

\* db.unregister_operation(name): returns the popped instance or None
UnregisterOperation(name) ==
    /\ registry' = DictWithout(registry, name)
    /\ last' = Call("unregister", name, 0, <<>>, GetOperation(name), NoOutcome)
    /\ UNCHANGED <<ops, ests, db, pc>>

\* db.register_operations(ops): `mapping` is the dict's items in order.
RegisterOperations(mapping) ==
    /\ \A i \in DOMAIN mapping : mapping[i][2] \in DOMAIN ops
    /\ registry' = DictUpdate(registry, mapping)
    /\ last' = Call("register_operations", "", 0, mapping, <<>>, NoOutcome)
    /\ UNCHANGED <<ops, ests, db, pc>>

\* db.clear()
Clear ==
    /\ registry' = <<>>
    /\ last' = Call("clear", "", 0, <<>>, <<>>, NoOutcome)
    /\ UNCHANGED <<ops, ests, db, pc>>

\* The workers that call DatabaseV2.query statement by statement; every
\* other call is made in one step by any thread.
Workers == {"w1"}

\* A worker outside DatabaseV2.query.
Idle == [at |-> "idle", op_name |-> "", kwargs |-> <<>>]

\* A worker that found op_name in the registry and has not fetched it yet.
Checked(op_name, kwargs) == [at |-> "fetch", op_name |-> op_name, kwargs |-> kwargs]

\* The first statement of DatabaseV2.query by worker w, the check
\* `op_name not in self._operations`: a miss raises, a hit leaves the worker
\* before the fetch.
QueryCheck(w, op_name, kwargs, depth) ==
    /\ pc[w] = Idle
    /\ IF ~DictHas(registry, op_name)
       THEN /\ last' = Call("db.query", op_name, 0, kwargs, <<>>,
                            DatabaseQuery(op_name, kwargs, depth))
            /\ pc' = pc
       ELSE /\ pc' = [pc EXCEPT ![w] = Checked(op_name, kwargs)]
            /\ last' = Call("db.query check", op_name, 0, kwargs, <<>>, NoOutcome)
    /\ UNCHANGED <<ops, ests, registry, db>>

\* self._operations[op_name] on a dict that no longer holds the name:
\* KeyError(op_name), raised before any operation is called.
MissingKey(op_name) == Raised("KeyError", <<op_name>>, <<>>, <<>>)

\* A fetch that finds the name gone and reports it as the check would.
FetchOutcomeChecked(w, depth) ==
    DatabaseQuery(pc[w].op_name, pc[w].kwargs, depth)

\* What the fetch `self._operations[op_name].query(**kwargs)` of a worker
\* standing before it gives in the registry as it is now.
FetchOutcome(w, depth) ==
    IF ~DictHas(registry, pc[w].op_name)
    THEN MissingKey(pc[w].op_name)
    ELSE DatabaseQuery(pc[w].op_name, pc[w].kwargs, depth)

\* The second statement of DatabaseV2.query, by worker w.
QueryFetch(w, depth) ==
    /\ pc[w].at = "fetch"
    /\ last' = Call("db.query", pc[w].op_name, 0, pc[w].kwargs, <<>>,
                    FetchOutcome(w, depth))
    /\ pc' = [pc EXCEPT ![w] = Idle]
    /\ UNCHANGED <<ops, ests, registry, db>>

\* estimator.fit(flat_matrix) called on the object
Fit(e, flat_matrix) ==
    /\ ests' = [ests EXCEPT ![e] = EstimatorFit(@, flat_matrix)]
    /\ last' = Call("fit", e, 0, <<<<"flat_matrix", flat_matrix>>>>, <<>>, NoOutcome)
    /\ UNCHANGED <<ops, registry, db, pc>>

\* estimator.predict(**kwargs) called on the object
Predict(e, kwargs) ==
    /\ last' = Call("predict", e, 0, kwargs, <<>>,
                    LET p == EstimatorPredict(ests[e], kwargs)
                    IN  IF p.status = "ok"
                        THEN Returned(PerformanceResult(p.latency, p.energy),
                                      <<>>, <<<<e, kwargs>>>>)
                        ELSE Raised(p.status, <<>>, <<>>, <<<<e, kwargs>>>>))
    /\ UNCHANGED <<ops, ests, registry, db, pc>>

(***************************************************************************)
(* Bounds and inputs.                                                      *)
(***************************************************************************)

\* Operations constructed in a run of Spec.
MaxOps == 3

\* Frames before RecursionError: more than any acyclic nesting of MaxOps
\* operations needs.
RecursionLimit == 5

Names == {"a", "b"}

EstIds == {"nn", "li"}

EstClass(e) == IF e = "li" THEN "LinearInterpolator" ELSE "NearestNeighbor"

\* query(a=.., b=..)
KwAB(a, b) == << <<"a", a>>, <<"b", b>> >>

\* The tests' exact-match rows for the key (1, 2).
Row5 == (<<1, 2>> :> Entry(5, 25))

Row3 == (<<1, 2>> :> Entry(3, 15))

StubCfg(data, mat) == [_data |-> data, mat |-> mat]

StubArgs(data, mat, estimator, scale_factor) ==
    [cfg |-> StubCfg(data, mat), estimator |-> estimator,
     scale_factor |-> scale_factor]

\* The leaf operations registered in Spec: the row (5, 25) under scale
\* factor 2, and the row (3, 15) with an estimator that is never fitted.
DbLeafArgs ==
    { StubArgs(Row5, NoMatrix, None, 2), StubArgs(Row3, NoMatrix, "nn", 1) }

DbCompositeArgs ==
    { [sub_operations |-> <<"a", "b">>, scale_factor |-> 1],
      [sub_operations |-> <<"a">>, scale_factor |-> 3] }

DbKwargs == { KwAB(2, 1), KwAB(2, 2) }

(***************************************************************************)
(* Spec: one DatabaseV2, stub operations and stub composites registered,   *)
(* unregistered and queried in any order.                                  *)
(***************************************************************************)

\* DatabaseV2.__init__: mode defaults to SILICON and `system_spec or {}`;
\* the argument is <<>> for None and <<spec>> for a dict.
DatabaseInit(backend, mode, system_spec) ==
    [backend |-> backend, mode |-> mode,
     system_spec |-> IF system_spec = <<>> THEN EmptyDict ELSE system_spec[1]]

Init ==
    /\ ops = <<>>
    /\ ests = [e \in EstIds |-> NewEstimator(EstClass(e))]
    /\ registry = <<>>
    /\ db = DatabaseInit("trtllm", "SILICON", <<>>)
    /\ pc = [w \in Workers |-> Idle]
    /\ last = Call("init", "", 0, <<>>, <<>>, NoOutcome)

Next ==
    \/ \E a \in DbLeafArgs :
           OperationInit(MaxOps, "stub", a.cfg, a.estimator, a.scale_factor)
    \/ \E a \in DbCompositeArgs :
           CompositeInit(MaxOps, a.sub_operations, a.scale_factor)
    \/ \E name \in Names, id \in 1..MaxOps : RegisterOperation(name, id)
    \/ \E name \in Names : UnregisterOperation(name)
    \/ Clear
    \/ \E name \in Names, kwargs \in DbKwargs :
           QueryDatabase(name, kwargs, RecursionLimit)
    \/ \E id \in 1..MaxOps, kwargs \in DbKwargs :
           QueryOperation(id, kwargs, RecursionLimit)

Spec == Init /\ [][Next]_vars

(***************************************************************************)
(* SpecReg: the registry of one DatabaseV2 under single and bulk           *)
(* registration, removal, clearing and queries, over stub operations and   *)
(* stub composites.                                                        *)
(***************************************************************************)

\* Operations constructed in a run of SpecReg.
MaxReg == 2

\* The {name: op} dicts passed to register_operations: up to one entry per
\* name, in either order.
BulkMappings ==
    { <<>> }
    \cup { << <<n, id>> >> : n \in Names, id \in 1..MaxReg }
    \cup { mapping \in { << <<n, id1>>, <<m, id2>> >> :
                            n \in Names, m \in Names,
                            id1 \in 1..MaxReg, id2 \in 1..MaxReg } :
              mapping[1][1] # mapping[2][1] }

NextReg ==
    \/ \E a \in DbLeafArgs :
           OperationInit(MaxReg, "stub", a.cfg, a.estimator, a.scale_factor)
    \/ \E a \in DbCompositeArgs :
           CompositeInit(MaxReg, a.sub_operations, a.scale_factor)
    \/ \E name \in Names : \E id \in DOMAIN ops : RegisterOperation(name, id)
    \/ \E mapping \in BulkMappings : RegisterOperations(mapping)
    \/ \E name \in Names : UnregisterOperation(name)
    \/ Clear
    \/ \E name \in Names, kwargs \in DbKwargs :
           QueryDatabase(name, kwargs, RecursionLimit)

SpecReg == Init /\ [][NextReg]_vars

(***************************************************************************)
(* SpecOp: operations of every kind constructed, given exact-match rows    *)
(* and queried directly, with estimators that may or may not be fitted.    *)
(***************************************************************************)

\* Operations constructed in a run of SpecOp.
MaxSolo == 1

\* Runtime parameters (token counts, a, b) range over 0..MaxX.
MaxX == 2

\* A sample table over (a, b): three points spanning a triangle.
TableA == Matrix(<< <<0, 0, 2, 10>>, <<2, 0, 4, 20>>, <<0, 2, 6, 30>> >>)

EmptyMatrix == Matrix(<<>>)

\* Exact rows of a stub: one with an energy, one without.
StubRows == (<<1, 2>> :> Entry(5, 25)) @@ (<<2, 2>> :> EntryNoEnergy(7))

ScaleFactors == {1, 2}

OpStubArgs ==
    { StubArgs(StubRows, NoMatrix, None, sf) : sf \in ScaleFactors }
    \cup { StubArgs(StubRows, mat, e, sf) :
             mat \in {NoMatrix, EmptyMatrix, TableA}, e \in EstIds,
             sf \in ScaleFactors }

\* common.GEMMQuantMode.float16: 2 bytes per element.
Float16 == [name |-> "float16", memory |-> 2]

OpGemmArgs ==
    { [cfg |-> [_n |-> 1024, _k |-> 512, _quant_mode |-> Float16,
                _scale_num_tokens |-> snt],
       estimator |-> e, scale_factor |-> sf] :
        snt \in {1, 2}, e \in {None, "nn"}, sf \in ScaleFactors }

OpCustomAllReduceArgs ==
    { [cfg |-> [_h |-> 2, _tp_size |-> tp], estimator |-> e, scale_factor |-> sf] :
        tp \in {1, 2}, e \in {None, "nn"}, sf \in ScaleFactors }

OpP2PArgs ==
    { [cfg |-> [_h |-> 2, _pp_size |-> pp], estimator |-> e, scale_factor |-> sf] :
        pp \in {1, 2}, e \in {None, "nn"}, sf \in ScaleFactors }

OpCompositeArgs ==
    { [sub_operations |-> subs, scale_factor |-> 1] : subs \in {<<>>, <<"a">>} }

\* The kwargs a caller passes to an operation of a kind; for the kinds that
\* subscript kwargs, one call lacks the keyword.
OpKwargs(kind) ==
    CASE kind = "gemm" ->
             { << <<"M", m>> >> : m \in 0..MaxX } \cup { << <<"x", 1>> >> }
      [] kind \in {"custom_allreduce", "p2p"} ->
             { << <<"x", x>> >> : x \in 0..MaxX } \cup { << <<"M", 1>> >> }
      [] OTHER ->
             { KwAB(a, b) : a, b \in 1..MaxX }

\* The dicts a test assigns to exact_match_dict: empty, or one row at the key
\* of token count 1.
InjectedDicts(op) ==
    { EmptyDict,
      GetLookupKey(op, << <<"M", 1>>, <<"x", 1>> >>) :> Entry(5, 25) }

NextOp ==
    \/ \E a \in OpStubArgs :
           OperationInit(MaxSolo, "stub", a.cfg, a.estimator, a.scale_factor)
    \/ \E a \in OpGemmArgs :
           OperationInit(MaxSolo, "gemm", a.cfg, a.estimator, a.scale_factor)
    \/ \E a \in OpCustomAllReduceArgs :
           OperationInit(MaxSolo, "custom_allreduce", a.cfg, a.estimator, a.scale_factor)
    \/ \E a \in OpP2PArgs :
           OperationInit(MaxSolo, "p2p", a.cfg, a.estimator, a.scale_factor)
    \/ \E a \in OpCompositeArgs :
           CompositeInit(MaxSolo, a.sub_operations, a.scale_factor)
    \/ \E id \in DOMAIN ops : \E dict \in InjectedDicts(ops[id]) :
           InjectData(id, dict)
    \/ \E e \in EstIds, mat \in {NoMatrix, EmptyMatrix, TableA} : Fit(e, mat)
    \/ \E id \in DOMAIN ops : \E kwargs \in OpKwargs(ops[id].kind) :
           QueryOperation(id, kwargs, RecursionLimit)

SpecOp == Init /\ [][NextOp]_vars

(***************************************************************************)
(* SpecKind: operations of the concrete kinds and the composites, without  *)
(* estimators, asked for their data, keys and weights.                     *)
(***************************************************************************)

\* Operations constructed in a run of SpecKind.
MaxKind == 1

\* common.CommQuantMode.half
Half == [name |-> "half", memory |-> 2]

KindGemmArgs ==
    { [cfg |-> [_n |-> 1024, _k |-> 512, _quant_mode |-> Float16,
                _scale_num_tokens |-> snt],
       estimator |-> None, scale_factor |-> sf] :
        snt \in {1, 2}, sf \in ScaleFactors }

KindNcclArgs ==
    { [cfg |-> [_nccl_op |-> "all_gather", _num_elements_per_token |-> n,
                _num_gpus |-> 2, _comm_quant_mode |-> Half],
       estimator |-> None, scale_factor |-> 1] : n \in {1, 3} }

KindCustomAllReduceArgs ==
    { [cfg |-> [_h |-> 3, _tp_size |-> tp], estimator |-> None,
       scale_factor |-> 1] : tp \in {1, 2} }

KindP2PArgs ==
    { [cfg |-> [_h |-> 3, _pp_size |-> pp], estimator |-> None,
       scale_factor |-> 1] : pp \in {1, 2} }

KindElementWiseArgs ==
    { [cfg |-> [_dim_in |-> 2, _dim_out |-> 3, _scale_num_tokens |-> snt],
       estimator |-> None, scale_factor |-> 1] : snt \in {1, 2} }

KindEmbeddingArgs ==
    { [cfg |-> [_row_size |-> 4, _column_size |-> 3],
       estimator |-> None, scale_factor |-> sf] : sf \in ScaleFactors }

KindMoEArgs ==
    { [cfg |-> [_hidden_size |-> 4, _inter_size |-> 2, _topk |-> 2,
                _num_experts |-> 4, _moe_tp_size |-> 2, _moe_ep_size |-> 2,
                _quant_mode |-> Float16, _workload_distribution |-> "uniform",
                _attention_dp_size |-> 2, _is_context |-> TRUE,
                _is_gated |-> gated],
       estimator |-> None, scale_factor |-> 2] : gated \in BOOLEAN }

KindStubArgs == { StubArgs(StubRows, NoMatrix, None, 2) }

KindCompositeArgs ==
    { [sub_operations |-> subs, scale_factor |-> 2] : subs \in {<<>>, <<"a">>} }

KindMoEDispatchArgs ==
    { [cfg |-> [hidden_size |-> 4, topk |-> 2, num_experts |-> 4,
                moe_tp_size |-> 2, moe_ep_size |-> 2,
                attention_dp_size |-> 2, pre_dispatch |-> pre],
       scale_factor |-> 2] : pre \in BOOLEAN }

\* The kwargs of a call: the kind's token-count keyword, a call without it,
\* and for the stubs two keywords.
KindKwargs(kind) ==
    CASE kind = "gemm" ->
             { << <<"M", m>> >> : m \in 0..(MaxX + 1) } \cup { << <<"x", 1>> >> }
      [] kind \in {"stub", "stub_composite"} ->
             { KwAB(1, 2), KwAB(2, 1) }
      [] OTHER ->
             { << <<"x", x>> >> : x \in 0..(MaxX + 1) } \cup { << <<"M", 1>> >> }

NextKind ==
    \/ \E a \in KindStubArgs :
           OperationInit(MaxKind, "stub", a.cfg, a.estimator, a.scale_factor)
    \/ \E a \in KindGemmArgs :
           OperationInit(MaxKind, "gemm", a.cfg, a.estimator, a.scale_factor)
    \/ \E a \in KindNcclArgs :
           OperationInit(MaxKind, "nccl", a.cfg, a.estimator, a.scale_factor)
    \/ \E a \in KindCustomAllReduceArgs :
           OperationInit(MaxKind, "custom_allreduce", a.cfg, a.estimator, a.scale_factor)
    \/ \E a \in KindP2PArgs :
           OperationInit(MaxKind, "p2p", a.cfg, a.estimator, a.scale_factor)
    \/ \E a \in KindElementWiseArgs :
           OperationInit(MaxKind, "elementwise", a.cfg, a.estimator, a.scale_factor)
    \/ \E a \in KindEmbeddingArgs :
           OperationInit(MaxKind, "embedding", a.cfg, a.estimator, a.scale_factor)
    \/ \E a \in KindMoEArgs :
           OperationInit(MaxKind, "moe", a.cfg, a.estimator, a.scale_factor)
    \/ \E a \in KindCompositeArgs :
           CompositeInit(MaxKind, a.sub_operations, a.scale_factor)
    \/ \E a \in KindMoEDispatchArgs :
           MoEDispatchInit(MaxKind, a.cfg, a.scale_factor)
    \/ \E id \in DOMAIN ops : CallLoadData(id)
    \/ \E id \in DOMAIN ops : \E kwargs \in KindKwargs(ops[id].kind) :
           CallGetLookupKey(id, kwargs)
    \/ \E id \in DOMAIN ops : \E kwargs \in KindKwargs(ops[id].kind) :
           CallGetWeights(id, kwargs)
    \/ \E id \in DOMAIN ops : \E kwargs \in KindKwargs(ops[id].kind) :
           QueryBase(id, kwargs)
    \/ \E id \in DOMAIN ops : \E kwargs \in KindKwargs(ops[id].kind) :
           QueryOperation(id, kwargs, RecursionLimit)

SpecKind == Init /\ [][NextKind]_vars

(***************************************************************************)
(* SpecConcrete: one DatabaseV2 holding operations of concrete kinds, each *)
(* registered under the name of its kind, and the MoE dispatch composite.  *)
(***************************************************************************)

\* Operations constructed in a run of SpecConcrete.
MaxConcrete == 2

\* The row of the registration test, ("float16", 32, 1024, 512) ->
\* latency 0.5, energy 10.0, in units of 0.1.
GemmTestDict == (<<"float16", 32, 1024, 512>> :> Entry(5, 100))

ConcreteGemmArgs ==
    { [cfg |-> [_n |-> 1024, _k |-> 512, _quant_mode |-> Float16,
                _scale_num_tokens |-> snt],
       estimator |-> None, scale_factor |-> 1] : snt \in {1, 2} }

ConcreteNcclArgs ==
    { [cfg |-> [_nccl_op |-> "all_gather", _num_elements_per_token |-> 3,
                _num_gpus |-> 2, _comm_quant_mode |-> Half],
       estimator |-> None, scale_factor |-> 1] }

ConcreteCustomAllReduceArgs ==
    { [cfg |-> [_h |-> 3, _tp_size |-> 2], estimator |-> None,
       scale_factor |-> 1] }

ConcreteMoEDispatchArgs ==
    { [cfg |-> [hidden_size |-> 4, topk |-> 2, num_experts |-> 4,
                moe_tp_size |-> 2, moe_ep_size |-> 2,
                attention_dp_size |-> 2, pre_dispatch |-> TRUE],
       scale_factor |-> 2] }

\* Token counts that fall on and off the stored row for either
\* scale_num_tokens.
ConcreteKwargs(kind) ==
    IF kind = "gemm"
    THEN { << <<"M", m>> >> : m \in {32, 33, 64} }
    ELSE { << <<"x", x>> >> : x \in {1, 2} }

ConcreteDicts(op) ==
    IF op.kind = "gemm"
    THEN { EmptyDict, GemmTestDict }
    ELSE { EmptyDict, GetLookupKey(op, << <<"x", 1>> >>) :> Entry(5, 25) }

ConcreteNames == {"gemm", "nccl", "custom_allreduce", "moe_dispatch"}

NextConcrete ==
    \/ \E a \in ConcreteGemmArgs :
           OperationInit(MaxConcrete, "gemm", a.cfg, a.estimator, a.scale_factor)
    \/ \E a \in ConcreteNcclArgs :
           OperationInit(MaxConcrete, "nccl", a.cfg, a.estimator, a.scale_factor)
    \/ \E a \in ConcreteCustomAllReduceArgs :
           OperationInit(MaxConcrete, "custom_allreduce", a.cfg, a.estimator,
                         a.scale_factor)
    \/ \E a \in ConcreteMoEDispatchArgs :
           MoEDispatchInit(MaxConcrete, a.cfg, a.scale_factor)
    \/ \E id \in DOMAIN ops : \E dict \in ConcreteDicts(ops[id]) :
           InjectData(id, dict)
    \/ \E id \in DOMAIN ops : RegisterOperation(ops[id].kind, id)
    \/ \E name \in ConcreteNames : UnregisterOperation(name)
    \/ \E name \in ConcreteNames : \E kwargs \in ConcreteKwargs(name) :
           QueryDatabase(name, kwargs, RecursionLimit)
    \/ \E id \in DOMAIN ops : \E kwargs \in ConcreteKwargs(ops[id].kind) :
           QueryOperation(id, kwargs, RecursionLimit)
    \/ \E id \in DOMAIN ops : \E kwargs \in ConcreteKwargs(ops[id].kind) :
           CallGetLookupKey(id, kwargs)

SpecConcrete == Init /\ [][NextConcrete]_vars

(***************************************************************************)
(* SpecEst: the two estimators alone, fitted and asked in any order.       *)
(***************************************************************************)

\* A second sample table over (a, b).
TableB == Matrix(<< <<0, 0, 8, 40>>, <<2, 0, 8, 40>>, <<2, 2, 4, 60>> >>)

EstMatrices == {NoMatrix, EmptyMatrix, TableA, TableB}

EstKwargs == { KwAB(a, b) : a, b \in 0..MaxX }

NextEst ==
    \/ \E e \in EstIds, mat \in EstMatrices : Fit(e, mat)
    \/ \E e \in EstIds, kwargs \in EstKwargs : Predict(e, kwargs)

SpecEst == Init /\ [][NextEst]_vars

(***************************************************************************)
(* SpecRead: one DatabaseV2, operations with and without a shared          *)
(* estimator constructed and registered, and the four read calls --        *)
(* Database.query, Operation.query, get_lookup_key and get_weights -- in   *)
(* any order.                                                              *)
(***************************************************************************)

\* Operations constructed in a run of SpecRead.
MaxRead == 2

ReadCompositeArgs == { [sub_operations |-> <<"a">>, scale_factor |-> 3] }

\* A stored key of the stubs and a missing one; a matrix multiply, which
\* wants M, fails on both with KeyError.
ReadKwargs == { KwAB(2, 1), KwAB(1, 1) }

\* Two stubs share the NearestNeighbor, one without a sample table and one
\* with; the matrix multiply has no estimator.
NextRead ==
    \/ \E a \in { StubArgs(StubRows, NoMatrix, "nn", 1),
                  StubArgs(StubRows, TableA, "nn", 2) } :
           OperationInit(MaxRead, "stub", a.cfg, a.estimator, a.scale_factor)
    \/ \E a \in { [cfg |-> [_n |-> 1024, _k |-> 512, _quant_mode |-> Float16,
                            _scale_num_tokens |-> 2],
                   estimator |-> None, scale_factor |-> 2] } :
           OperationInit(MaxRead, "gemm", a.cfg, a.estimator, a.scale_factor)
    \/ \E a \in ReadCompositeArgs :
           CompositeInit(MaxRead, a.sub_operations, a.scale_factor)
    \/ \E name \in Names : \E id \in DOMAIN ops : RegisterOperation(name, id)
    \/ \E name \in Names : UnregisterOperation(name)
    \/ \E name \in Names, kwargs \in ReadKwargs :
           QueryDatabase(name, kwargs, RecursionLimit)
    \/ \E id \in DOMAIN ops, kwargs \in ReadKwargs :
           QueryOperation(id, kwargs, RecursionLimit)
    \/ \E id \in DOMAIN ops, kwargs \in ReadKwargs :
           CallGetLookupKey(id, kwargs)
    \/ \E id \in DOMAIN ops, kwargs \in ReadKwargs :
           CallGetWeights(id, kwargs)

SpecRead == Init /\ [][NextRead]_vars

(***************************************************************************)
(* SpecGemm: matrix multiplies that share one NearestNeighbor, fitted by a *)
(* direct call on a table over (M, N, K), next to a stub with its own      *)
(* LinearInterpolator; rows are injected and the operations queried.       *)
(***************************************************************************)

\* Operations constructed in a run of SpecGemm.
MaxGemm == 2

\* common.GEMMQuantMode.fp8: 1 byte per element.
Fp8 == [name |-> "fp8", memory |-> 1]

\* Samples over (M, N, K): two token counts of the 1024 x 512 multiply and
\* one of the transposed shape.
GemmTable ==
    Matrix(<< <<16, 1024, 512, 4, 20>>, <<32, 1024, 512, 8, 40>>,
              <<32, 512, 1024, 9, 45>> >>)

GemmEstArgs ==
    { [cfg |-> [_n |-> 1024, _k |-> 512, _quant_mode |-> q,
                _scale_num_tokens |-> snt],
       estimator |-> "nn", scale_factor |-> 2] :
        q \in {Float16, Fp8}, snt \in {1, 2} }

\* Token counts on and off the samples, for either scale_num_tokens.
GemmTokens == {16, 33, 64}

\* A multiply is given no rows or one row at the key of 64 tokens.
NextGemm ==
    \/ \E a \in GemmEstArgs :
           OperationInit(MaxGemm, "gemm", a.cfg, a.estimator, a.scale_factor)
    \/ \E a \in { StubArgs(StubRows, TableA, "li", 2) } :
           OperationInit(MaxGemm, "stub", a.cfg, a.estimator, a.scale_factor)
    \/ Fit("nn", GemmTable)
    \/ \E id \in DOMAIN ops :
       \E dict \in { EmptyDict,
                     GetLookupKey(ops[id], << <<"M", 64>> >>) :> Entry(5, 25) } :
           InjectData(id, dict)
    \/ \E id \in DOMAIN ops :
       \E kwargs \in IF ops[id].kind = "gemm"
                      THEN { << <<"M", m>> >> : m \in GemmTokens }
                      ELSE { KwAB(2, 1), KwAB(1, 1) } :
           QueryOperation(id, kwargs, RecursionLimit)

SpecGemm == Init /\ [][NextGemm]_vars

(***************************************************************************)
(* SpecAttn: attention operations of the context and generation phases and *)
(* a context latent attention, with and without one NearestNeighbor that   *)
(* is fitted by direct calls on a table over (batch_size, s, prefix) or    *)
(* over (batch_size, s); rows are injected and the operations queried with *)
(* and without the prefix.                                                 *)
(***************************************************************************)

\* Operations constructed in a run of SpecAttn.
MaxAttn == 1

\* attention.py: window_size defaults to 0 and head_size to 128.
ContextAttentionArgs ==
    { [cfg |-> [_n |-> 8, _n_kv |-> 2, _kvcache_quant_mode |-> Fp8,
                _fmha_quant_mode |-> Float16, _window_size |-> 0,
                _head_size |-> 128],
       estimator |-> e, scale_factor |-> 2] : e \in {None, "nn"} }

GenerationAttentionArgs ==
    { [cfg |-> [_n |-> 8, _n_kv |-> 2, _kv_cache_dtype |-> Fp8,
                _window_size |-> 0, _head_size |-> 128],
       estimator |-> e, scale_factor |-> 2] : e \in {None, "nn"} }

ContextMLAArgs ==
    { [cfg |-> [_num_heads |-> 16, _kvcache_quant_mode |-> Fp8,
                _fmha_quant_mode |-> Float16],
       estimator |-> e, scale_factor |-> 2] : e \in {None, "nn"} }

\* Calls without a prefix: the sampled shapes, and one without batch_size.
AttnNoPrefix ==
    { << <<"batch_size", 1>>, <<"s", s>> >> : s \in {2, 4} }

AttnPrefixes == {0, 1}

AttnKwargs ==
    AttnNoPrefix
      \cup { Append(kwargs, <<"prefix", p>>) :
                kwargs \in AttnNoPrefix, p \in AttnPrefixes }
      \cup { << <<"s", 2>> >> }

\* The NearestNeighbor is fitted on samples over (batch_size, s, prefix) or
\* on table A, over two columns; an operation is given no rows or one row
\* at the key of (batch_size 1, s 2) without a prefix.
NextAttn ==
    \/ \E a \in ContextAttentionArgs :
           OperationInit(MaxAttn, "context_attention", a.cfg, a.estimator,
                         a.scale_factor)
    \/ \E a \in GenerationAttentionArgs :
           OperationInit(MaxAttn, "generation_attention", a.cfg, a.estimator,
                         a.scale_factor)
    \/ \E a \in ContextMLAArgs :
           OperationInit(MaxAttn, "context_mla", a.cfg, a.estimator,
                         a.scale_factor)
    \/ \E t \in { Matrix(<< <<1, 2, 0, 4, 20>>, <<1, 4, 0, 8, 40>>,
                             <<1, 2, 1, 6, 30>> >>),
                   TableA } :
           Fit("nn", t)
    \/ \E id \in DOMAIN ops :
       \E dict \in { EmptyDict,
                     GetLookupKey(ops[id], << <<"batch_size", 1>>, <<"s", 2>> >>)
                         :> Entry(5, 25) } :
           InjectData(id, dict)
    \/ \E id \in DOMAIN ops : \E kwargs \in AttnKwargs :
           CallGetLookupKey(id, kwargs)
    \/ \E id \in DOMAIN ops : \E kwargs \in AttnKwargs :
           QueryOperation(id, kwargs, RecursionLimit)

SpecAttn == Init /\ [][NextAttn]_vars

(***************************************************************************)
(* SpecKey: operations of every concrete kind asked for their lookup key   *)
(* with the kind's runtime keywords alone and with a further keyword that  *)
(* names a static field; the kinds that take a token count x may share one *)
(* NearestNeighbor fitted on a table over (x) and are queried, the         *)
(* element-wise ones with and without a row at the key of two tokens.      *)
(***************************************************************************)

\* Operations constructed in a run of SpecKey.
MaxKey == 1

\* Samples over (x).
TokenTable == Matrix(<< <<1, 4, 20>>, <<2, 8, 40>>, <<5, 16, 80>> >>)

\* The kinds whose one runtime keyword is the token count x.
TokenKinds == {"nccl", "custom_allreduce", "p2p", "elementwise", "embedding", "moe"}

KeyArgs(kind) ==
    CASE kind = "gemm"                 -> KindGemmArgs
      [] kind = "nccl"                 -> KindNcclArgs
      [] kind = "custom_allreduce"     -> KindCustomAllReduceArgs
      [] kind = "p2p"                  -> KindP2PArgs
      [] kind = "elementwise"          -> KindElementWiseArgs
      [] kind = "embedding"            -> KindEmbeddingArgs
      [] kind = "moe"                  -> KindMoEArgs
      [] kind = "context_attention"    -> ContextAttentionArgs
      [] kind = "generation_attention" -> GenerationAttentionArgs
      [] kind = "context_mla"          -> ContextMLAArgs
      [] kind = "generation_mla"       ->
             { [cfg |-> [_num_heads |-> 16, _kv_cache_dtype |-> Fp8],
                estimator |-> None, scale_factor |-> 2] }
      [] kind = "mla_bmm"              ->
             { [cfg |-> [_num_heads |-> 16, _quant_mode |-> Float16,
                         _if_pre |-> pre],
                estimator |-> None, scale_factor |-> 2] : pre \in BOOLEAN }

KeyKinds ==
    TokenKinds \cup {"gemm", "context_attention", "generation_attention",
                     "context_mla", "generation_mla", "mla_bmm"}

\* The runtime keywords of a call, one call lacking a required keyword.
RuntimeKwargs(kind) ==
    CASE kind \in {"context_attention", "generation_attention", "context_mla",
                   "generation_mla"} -> AttnKwargs
      [] kind = "mla_bmm" ->
             { << <<"batch_size", b>> >> : b \in 1..MaxX } \cup { << <<"s", 2>> >> }
      [] OTHER -> KindKwargs(kind)

\* A further keyword named after a static field: a quantization mode, a
\* quantization mode given as a string, a head count.
StaticKeywords ==
    { <<"quant_mode", Fp8>>, <<"quant_mode", [str |-> "int4"]>>,
      <<"num_heads", 3>> }

NextKey ==
    \/ \E kind \in KeyKinds : \E a \in KeyArgs(kind) :
       \E e \in IF kind \in TokenKinds THEN {None, "nn"} ELSE {a.estimator} :
           OperationInit(MaxKey, kind, a.cfg, e, a.scale_factor)
    \/ Fit("nn", TokenTable)
    \/ \E id \in { i \in DOMAIN ops : ops[i].kind = "elementwise" } :
       \E dict \in { EmptyDict, GetLookupKey(ops[id], << <<"x", 2>> >>) :> Entry(5, 25) } :
           InjectData(id, dict)
    \/ \E id \in DOMAIN ops :
       \E kwargs \in RuntimeKwargs(ops[id].kind)
                      \cup { Append(k, extra) : k \in RuntimeKwargs(ops[id].kind),
                                                extra \in StaticKeywords } :
           CallGetLookupKey(id, kwargs)
    \/ \E id \in DOMAIN ops : \E kwargs \in RuntimeKwargs(ops[id].kind) :
           QueryOperation(id, kwargs, RecursionLimit)

SpecKey == Init /\ [][NextKey]_vars

(***************************************************************************)
(* SpecConc: one DatabaseV2 shared by threads.  Registrations, removals,   *)
(* clear and whole queries happen in one step each; a worker's query runs  *)
(* as the two statements of DatabaseV2.query, and any of the other calls   *)
(* may fall between them.                                                  *)
(***************************************************************************)

\* Operations constructed in a run of SpecConc.
MaxConc == 2

\* A stub with one row and a composite over "a" are constructed.
NextConc ==
    \/ \E a \in { StubArgs(Row5, NoMatrix, None, 2) } :
           OperationInit(MaxConc, "stub", a.cfg, a.estimator, a.scale_factor)
    \/ \E a \in ReadCompositeArgs :
           CompositeInit(MaxConc, a.sub_operations, a.scale_factor)
    \/ \E name \in Names : \E id \in DOMAIN ops : RegisterOperation(name, id)
    \/ \E name \in Names : UnregisterOperation(name)
    \/ Clear
    \/ \E name \in Names, kwargs \in DbKwargs :
           QueryDatabase(name, kwargs, RecursionLimit)
    \/ \E w \in Workers, name \in Names, kwargs \in DbKwargs :
           QueryCheck(w, name, kwargs, RecursionLimit)
    \/ \E w \in Workers : QueryFetch(w, RecursionLimit)

SpecConc == Init /\ [][NextConc]_vars

(***************************************************************************)
(* SpecShare: stubs constructed one after the other, each with a sample    *)
(* table and one of the two Estimator objects, and queried.                *)
(***************************************************************************)

\* Operations constructed in a run of SpecShare.
MaxShare == 2

NextShare ==
    \/ \E mat \in {TableA, TableB}, e \in EstIds :
           LET a == StubArgs(StubRows, mat, e, 2)
           IN  OperationInit(MaxShare, "stub", a.cfg, a.estimator, a.scale_factor)
    \/ \E id \in DOMAIN ops, kwargs \in EstKwargs :
           QueryOperation(id, kwargs, RecursionLimit)

SpecShare == Init /\ [][NextShare]_vars

(***************************************************************************)
(* Properties of Spec.                                                     *)
(***************************************************************************)

IsQuery == last.call \in {"db.query", "op.query"}

\* The operation the last query was addressed to: <<id>>, or <<>> when the
\* name was not registered.
LastTarget ==
    IF last.call = "op.query" THEN <<last.op>>
    ELSE IF last.call = "db.query" THEN GetOperation(last.name)
    ELSE <<>>

Range(seq) == {seq[i] : i \in DOMAIN seq}

RECURSIVE SeqSum(_)
SeqSum(seq) == IF seq = <<>> THEN 0 ELSE Head(seq) + SeqSum(Tail(seq))

BoundSomewhere(id) == \E name \in Names : GetOperation(name) = <<id>>

\* C3: after register(name, op2) every query of name is answered by op2, and
\* by the operation it replaced only if that one is still bound elsewhere;
\* every operation a query ran, sub-queries of composites included, is the
\* one its name is bound to at the time of the query.
C3_NewestRegistrationAnswers ==
    /\ last.call = "register" =>
           \A kwargs \in DbKwargs :
               LET out == DatabaseQuery(last.name, kwargs, RecursionLimit)
               IN  /\ out.resolved[1] = <<last.name, last.op>>
                   /\ out.calls[1] = last.op
                   /\ \A old \in Range(last.ret) :
                          old # last.op /\ ~BoundSomewhere(old)
                              => old \notin Range(out.calls)
    /\ IsQuery =>
           /\ \A r \in Range(last.out.resolved) : GetOperation(r[1]) = <<r[2]>>
           /\ last.out.calls =
                  (IF last.call = "op.query" THEN <<last.op>> ELSE <<>>)
                  \o [i \in DOMAIN last.out.resolved |-> last.out.resolved[i][2]]

\* C3 witness: a name was just re-bound from one operation to another, and a
\* composite constructed before the new operation reaches the new one
\* through that name.
C3_Witness ==
    /\ last.call = "register"
    /\ last.ret # <<>>
    /\ last.ret[1] # last.op
    /\ ops[last.ret[1]] # ops[last.op]
    /\ \E c \in DOMAIN ops, kwargs \in DbKwargs :
           /\ c < last.op
           /\ ops[c].kind = "stub_composite"
           /\ last.name \in Range(ops[c].cfg.sub_operations)
           /\ LET out == OperationQuery(c, kwargs, RecursionLimit)
              IN  /\ out.status = "ok"
                  /\ last.op \in Range(out.calls)
                  /\ last.ret[1] \notin Range(out.calls)

\* C4: unregister(name) of a name that is not registered returns None, raises
\* nothing and leaves the registry as it was; of a registered name it returns
\* the instance bound to it, after which has(name) is false and the other
\* names are bound as before.
C4_UnregisterReturnsInstanceOrNone ==
    [][last'.call = "unregister" =>
          /\ last'.out = NoOutcome
          /\ IF DictHas(registry, last'.name)
             THEN /\ last'.ret = <<DictGet(registry, last'.name)>>
                  /\ ~DictHas(registry', last'.name)
                  /\ \A other \in Names \ {last'.name} :
                         /\ DictHas(registry', other) <=> DictHas(registry, other)
                         /\ DictHas(registry, other) =>
                                DictGet(registry', other) = DictGet(registry, other)
             ELSE /\ last'.ret = <<>>
                  /\ registry' = registry]_vars

\* C4 witness: unregister of an unknown name returned None while another
\* name stayed registered.
C4_Witness ==
    /\ last.call = "unregister"
    /\ last.ret = <<>>
    /\ registry # <<>>

\* C5: a Database.query of a name that is not registered fails with
\* UnregisteredOperation, whose message holds the name and the names
\* registered at that moment, each once; no operation is called, and no
\* query changes the registry.
C5_UnknownNameFails ==
    /\ [](last.call = "db.query" /\ ~HasOperation(last.name) =>
            /\ last.out.status = "UnregisteredOperation"
            /\ last.out.result = <<>>
            /\ last.out.calls = <<>>
            /\ last.out.predicts = <<>>
            /\ last.out.detail[1] = last.name
            /\ Range(last.out.detail[2]) = {name \in Names : HasOperation(name)}
            /\ Len(last.out.detail[2]) = Cardinality(Range(last.out.detail[2])))
    /\ [][last'.call = "db.query" => registry' = registry]_vars

\* C5 witness: after a name was registered, a query of another name failed
\* with a message listing the registered one.
C5_Witness ==
    /\ last.call = "db.query"
    /\ last.out.status = "UnregisteredOperation"
    /\ last.out.resolved = <<>>
    /\ last.out.detail[2] # <<>>

\* The composite the last query was addressed to, if it was one.
LastComposite ==
    {id \in Range(LastTarget) : IsQuery /\ ops[id].kind = "stub_composite"}

\* What each sub-operation name of composite c answers to the last kwargs.
SubOutcomes(c) ==
    [i \in DOMAIN ops[c].cfg.sub_operations |->
        DatabaseQuery(ops[c].cfg.sub_operations[i], last.kwargs, RecursionLimit - 1)]

\* C7: a summing composite returns scale_factor times the sum of its
\* sub-results' latencies and scale_factor times the sum of their energies,
\* each sub-result carrying its own operation's scale_factor.
C7_CompositeSums ==
    \A c \in LastComposite :
        LET subs == SubOutcomes(c)
        IN  (\A i \in DOMAIN subs : subs[i].status = "ok") =>
                /\ last.out.status = "ok"
                /\ last.out.result[1].latency =
                       ops[c].scale_factor
                         * SeqSum([i \in DOMAIN subs |-> subs[i].result[1].latency])
                /\ last.out.result[1].energy =
                       ops[c].scale_factor
                         * SeqSum([i \in DOMAIN subs |-> subs[i].result[1].energy])

\* C7 witness: the composite over "a" with scale factor 3, "a" bound to the
\* row (5, 25) under scale factor 2, returned (30, 150).
C7_Witness ==
    /\ \E c \in LastComposite :
           /\ ops[c].scale_factor = 3
           /\ Len(SubOutcomes(c)) = 1
           /\ SubOutcomes(c)[1].result = <<PerformanceResult(10, 50)>>
    /\ last.out.result = <<PerformanceResult(30, 150)>>

\* C8: when a sub-query of a composite query fails, the composite query
\* fails with the error of the first failing sub-query and returns no result.
C8_SubFailureAborts ==
    \A c \in LastComposite :
        LET subs == SubOutcomes(c)
            bad  == {i \in DOMAIN subs : subs[i].status # "ok"}
        IN  bad # {} =>
                LET first == CHOOSE i \in bad : \A j \in bad : i <= j
                IN  /\ last.out.status = subs[first].status
                    /\ last.out.detail = subs[first].detail
                    /\ last.out.result = <<>>

\* C8 witness: the second sub-query of a composite failed after the first had
\* returned a result.
C8_Witness ==
    \E c \in LastComposite :
        /\ Len(SubOutcomes(c)) = 2
        /\ SubOutcomes(c)[1].status = "ok"
        /\ SubOutcomes(c)[1].result[1].latency > 0
        /\ SubOutcomes(c)[2].status \in {"LookupMiss", "NotFitted", "UnregisteredOperation"}
        /\ last.out.status = SubOutcomes(c)[2].status

\* The sub-operation names of an operation: a composite's list, none for a
\* leaf.
SubOperations(id) ==
    IF ops[id].kind = "stub_composite" THEN ops[id].cfg.sub_operations ELSE <<>>

\* The names the operation bound to n passes to Database.query.
SubNames(n) ==
    IF HasOperation(n) THEN Range(SubOperations(DictGet(registry, n))) ELSE {}

\* The names reached from the names of S in 1..k steps of the sub-operation
\* reference graph.
RECURSIVE ReachedIn(_, _)
ReachedIn(S, k) ==
    IF k = 0 THEN {}
    ELSE LET next == UNION {SubNames(m) : m \in S}
         IN  next \cup ReachedIn(next, k - 1)

\* n is bound to a composite whose list reaches n, directly or through other
\* composites.
ReachesItself(n) == n \in ReachedIn({n}, Cardinality(Names))

Acyclic == \A n \in Names : ~ReachesItself(n)

\* The Database.query calls of a query of name n when no sub-query fails:
\* the one for n and, if n is bound, one per listed sub-name at each level.
RECURSIVE SubQueries(_, _)
SubQueries(n, fuel) ==
    IF fuel = 0 \/ ~HasOperation(n) THEN 1
    ELSE LET subs == SubOperations(DictGet(registry, n))
         IN  1 + SeqSum([i \in DOMAIN subs |-> SubQueries(subs[i], fuel - 1)])

\* The same for a query made on the operation itself.
OpSubQueries(id) ==
    SeqSum([i \in DOMAIN SubOperations(id) |->
               SubQueries(SubOperations(id)[i], RecursionLimit)])

\* The errors a sub-query can end in without exhausting the frames.
SubFailures == {"UnregisteredOperation", "LookupMiss", "NotFitted", "ShapeError"}

\* C21 as stated: a query of a composite registered under a name its own
\* list reaches re-enters Database.query until the frames are exhausted,
\* whatever their number; and over an acyclic registry a composite query
\* terminates after exactly one sub-query per listed sub-name at each level.
C21_Original ==
    /\ \A n \in Names, kwargs \in DbKwargs, d \in 1..RecursionLimit :
           ReachesItself(n) =>
               DatabaseQuery(n, kwargs, d).status = "RecursionError"
    /\ Acyclic =>
           \A id \in DOMAIN ops, kwargs \in DbKwargs :
               LET out == OperationQuery(id, kwargs, RecursionLimit)
               IN  /\ out.status # "RecursionError"
                   /\ Len(out.resolved) = OpSubQueries(id)

\* C21 amended: no cycle is detected.  A query of a name bound to a composite
\* whose list reaches that name never returns a result: it ends in the first
\* failing sub-query's error if a sub-query fails before the cycle is
\* re-entered, and otherwise re-enters Database.query until the frames are
\* exhausted, more often the more frames there are.  Over an acyclic registry
\* a composite query terminates within the frames; it makes exactly one
\* sub-query per listed sub-name at each level when every sub-query returns,
\* and stops at the first failing one otherwise.
C21_NoCycleDetection ==
    /\ \A n \in Names, kwargs \in DbKwargs, d \in 1..RecursionLimit :
           ReachesItself(n) =>
               LET out == DatabaseQuery(n, kwargs, d)
               IN  /\ out.status # "ok"
                   /\ out.result = <<>>
                   /\ out.status = "RecursionError" => Len(out.resolved) > d
                   /\ out.status # "RecursionError" => out.status \in SubFailures
    /\ Acyclic =>
           \A id \in DOMAIN ops, kwargs \in DbKwargs :
               LET out == OperationQuery(id, kwargs, RecursionLimit)
               IN  /\ out.status # "RecursionError"
                   /\ out.status = "ok" => Len(out.resolved) = OpSubQueries(id)
                   /\ out.status # "ok" => Len(out.resolved) <= OpSubQueries(id)
    /\ last.call = "db.query" =>
           last.out = DatabaseQuery(last.name, last.kwargs, RecursionLimit)

\* C21 witness: "b" is bound to a composite over "a" and "a" to a composite
\* over "a" and "b"; query("b") re-entered Database.query until the frames
\* were exhausted.
C21_Witness ==
    /\ last.call = "db.query"
    /\ last.name = "b"
    /\ SubNames("b") = {"a"}
    /\ SubNames("a") = {"a", "b"}
    /\ ReachesItself("b")
    /\ last.out.status = "RecursionError"
    /\ Len(last.out.resolved) > RecursionLimit

(***************************************************************************)
(* Properties of SpecRead.                                                 *)
(***************************************************************************)

ReadCalls == {"db.query", "op.query", "get_lookup_key", "get_weights"}

RegistryMutations == {"register", "register_operations", "unregister", "clear"}

\* What get_lookup_key(**kwargs) of operation id gives: the key, or the
\* KeyError of a missing keyword.
KeyOutcome(id, kwargs) ==
    IF MissingKeyword(ops[id].kind, kwargs)
    THEN [status |-> "KeyError", key |-> <<>>]
    ELSE [status |-> "ok", key |-> GetLookupKey(ops[id], kwargs)]

\* The step leaves the registry, the database's settings and, for every
\* operation, its index, static configuration, scale_factor and its
\* estimator's fitted state as they were.
ReadFrame ==
    /\ registry' = registry
    /\ db' = db
    /\ DOMAIN ops' = DOMAIN ops
    /\ \A id \in DOMAIN ops :
           /\ ops'[id].exact_match_dict = ops[id].exact_match_dict
           /\ ops'[id].cfg = ops[id].cfg
           /\ ops'[id].kind = ops[id].kind
           /\ ops'[id].scale_factor = ops[id].scale_factor
           /\ ops'[id].estimator = ops[id].estimator
    /\ \A e \in EstIds : ests'[e]._fitted = ests[e]._fitted

\* Frames enough for any query of SpecRead that does not run into a cycle:
\* its composites list one name, so such a query is a leaf's, or a
\* composite's over the leaf bound to that name.
ReadFrames ==
    1 + Cardinality(UNION {Range(a.sub_operations) : a \in ReadCompositeArgs})

\* Every read call that can be made before the step has the same outcome
\* after it.  The outcomes are read off operations, estimators and registry,
\* so a step that leaves the three alone keeps them.
OutcomesKept ==
    \/ <<ops, ests, registry>>' = <<ops, ests, registry>>
    \/ /\ \A n \in Names, kwargs \in ReadKwargs :
              DatabaseQuery(n, kwargs, ReadFrames)'
                  = DatabaseQuery(n, kwargs, ReadFrames)
       /\ \A id \in DOMAIN ops, kwargs \in ReadKwargs :
              /\ OperationQuery(id, kwargs, ReadFrames)'
                     = OperationQuery(id, kwargs, ReadFrames)
              /\ KeyOutcome(id, kwargs)' = KeyOutcome(id, kwargs)
              /\ GetWeights(ops[id], kwargs)' = GetWeights(ops[id], kwargs)

\* get_lookup_key of every operation gives after the step what it gave
\* before; it reads the operation alone.
KeysKept ==
    \/ ops' = ops
    \/ \A id \in DOMAIN ops, kwargs \in ReadKwargs :
           KeyOutcome(id, kwargs)' = KeyOutcome(id, kwargs)

\* The last read call returned or raised what the same call gives in the
\* state it left behind.
RepeatGivesSame ==
    /\ last.call = "db.query" =>
           last.out = DatabaseQuery(last.name, last.kwargs, RecursionLimit)
    /\ last.call = "op.query" =>
           last.out = OperationQuery(last.op, last.kwargs, RecursionLimit)
    /\ last.call = "get_lookup_key" =>
           /\ last.out.status = KeyOutcome(last.op, last.kwargs).status
           /\ last.out.status = "ok" =>
                  last.out.result = <<KeyOutcome(last.op, last.kwargs).key>>
    /\ last.call = "get_weights" =>
           last.out.result = <<GetWeights(ops[last.op], last.kwargs)>>

\* C22 as stated: Database.query, Operation.query, get_lookup_key and
\* get_weights, returning or failing, change nothing; and a query repeated
\* with no registry mutation in between has the same outcome.
C22_Original ==
    /\ [][/\ last'.call \in ReadCalls => ReadFrame
          /\ last'.call \notin RegistryMutations => OutcomesKept]_vars
    /\ []RepeatGivesSame

\* C22 amended: the four read calls, returning or failing, change nothing,
\* so a read call repeated at once or after other read calls has the same
\* outcome; the outcome is also kept by every step that neither mutates the
\* registry nor fits an estimator -- which constructing an operation with
\* that estimator and a sample table does; get_lookup_key is stable under
\* every step.
C22_PureReads ==
    /\ [][/\ last'.call \in ReadCalls => ReadFrame /\ OutcomesKept
          /\ last'.call \notin RegistryMutations /\ ests' = ests => OutcomesKept
          /\ KeysKept]_vars
    /\ []RepeatGivesSame

\* C22 witness: with a name registered, a query of an operation missed the
\* index and was answered by the fitted estimator, which is still fitted on
\* the same rows, in the database as constructed.
C22_Witness ==
    /\ last.call = "op.query"
    /\ db = DatabaseInit("trtllm", "SILICON", <<>>)
    /\ pc = [w \in Workers |-> Idle]
    /\ registry # <<>>
    /\ last.out.status = "ok"
    /\ last.out.predicts # <<>>
    /\ ests["nn"]._fitted
    /\ ests["nn"].rows = TableA.rows

(***************************************************************************)
(* Properties of SpecReg.                                                  *)
(***************************************************************************)

\* register(name, op) called for each entry of the mapping in its order.
RECURSIVE RegisterEach(_, _)
RegisterEach(dict, mapping) ==
    IF mapping = <<>> THEN dict
    ELSE RegisterEach(DictSet(dict, Head(mapping)[1], Head(mapping)[2]),
                      Tail(mapping))

\* The names of the mapping that the registry does not hold, in its order.
NewNames(mapping) ==
    LET fresh == SelectSeq(mapping, LAMBDA e : ~HasOperation(e[1]))
    IN  [i \in DOMAIN fresh |-> fresh[i][1]]

\* C19: register_operations(mapping) leaves the registry as register(name,
\* op) for each entry in order would: every name of the mapping bound to the
\* mapping's operation, every other name as before, new names listed after
\* the old ones; and after clear() the registry is empty, has(n) is false
\* and query(n) fails with UnregisteredOperation for every name n.
C19_BulkAndClear ==
    /\ [][last'.call = "register_operations" =>
            LET mapping == last'.kwargs
            IN  /\ registry' = RegisterEach(registry, mapping)
                /\ \A n \in Names :
                       IF \E i \in DOMAIN mapping : mapping[i][1] = n
                       THEN \E i \in DOMAIN mapping :
                                /\ mapping[i][1] = n
                                /\ GetOperation(n)' = <<mapping[i][2]>>
                       ELSE GetOperation(n)' = GetOperation(n)
                /\ RegisteredOperations'
                     = RegisteredOperations \o NewNames(mapping)]_vars
    /\ [](last.call = "clear" =>
            /\ registry = <<>>
            /\ RegisteredOperations = <<>>
            /\ \A n \in Names :
                   /\ ~HasOperation(n)
                   /\ \A kwargs \in DbKwargs :
                          DatabaseQuery(n, kwargs, RecursionLimit).status
                              = "UnregisteredOperation")

\* C19 witness: a bulk registration of "a" then "b" overwrote both names in
\* a registry that held "b" before "a": the names kept their places.
C19_Witness ==
    /\ last.call = "register_operations"
    /\ last.kwargs = << <<"a", 2>>, <<"b", 2>> >>
    /\ registry = << <<"b", 2>>, <<"a", 2>> >>

\* The mapping binds the name.
Binds(mapping, n) == \E i \in DOMAIN mapping : mapping[i][1] = n

\* get(n) follows the registrations: a step that registers n, alone or in
\* bulk, makes get(n) the instance passed; unregister(n) and clear make it
\* absent; any other step leaves it as it was.  With nothing registered
\* at the start, get(n) is the instance of the most recent register(n, .)
\* not followed by unregister(n) or clear.
GetFollowsRegistrations ==
    /\ \A n \in Names : GetOperation(n) = <<>>
    /\ [][\A n \in Names :
            CASE last'.call = "register" /\ last'.name = n ->
                     GetOperation(n)' = <<last'.op>>
              [] last'.call = "register_operations" /\ Binds(last'.kwargs, n) ->
                     \E i \in DOMAIN last'.kwargs :
                         /\ last'.kwargs[i][1] = n
                         /\ GetOperation(n)' = <<last'.kwargs[i][2]>>
              [] last'.call = "unregister" /\ last'.name = n ->
                     GetOperation(n)' = <<>>
              [] last'.call = "clear" ->
                     GetOperation(n)' = <<>>
              [] OTHER ->
                     GetOperation(n)' = GetOperation(n)]_vars

\* has(n), get(n) and registered_operations agree on the name.
ViewsAgree(n) ==
    /\ HasOperation(n) <=> GetOperation(n) # <<>>
    /\ HasOperation(n) <=> n \in Range(RegisteredOperations)

\* C20 as stated: for every name n, has(n) iff get(n) is an operation iff n
\* is in registered_operations iff query(n, ...) does not fail with
\* UnregisteredOperation; and get(n) is the instance of the most recent
\* register(n, .) not followed by unregister(n) or clear.
C20_Original ==
    /\ [](\A n \in Names :
            /\ ViewsAgree(n)
            /\ \A kwargs \in DbKwargs :
                   HasOperation(n) <=>
                       DatabaseQuery(n, kwargs, RecursionLimit).status
                           # "UnregisteredOperation")
    /\ GetFollowsRegistrations

\* The query failed because the name itself is not registered.
UnregisteredItself(n, out) ==
    /\ out.status = "UnregisteredOperation"
    /\ out.detail[1] = n

\* C20 amended: the same, with query(n, ...) not failing with
\* UnregisteredOperation for the name n itself; a composite registered under
\* n may still fail with UnregisteredOperation for a sub-operation name.
C20_ViewsAgree ==
    /\ [](\A n \in Names :
            /\ ViewsAgree(n)
            /\ \A kwargs \in DbKwargs :
                   HasOperation(n) <=>
                       ~UnregisteredItself(n,
                            DatabaseQuery(n, kwargs, RecursionLimit)))
    /\ GetFollowsRegistrations

\* C20 witness: "b" is registered, a composite over "a", and "a" is not;
\* query("b") failed with UnregisteredOperation for "a".
C20_Witness ==
    /\ last.call = "db.query"
    /\ last.name = "b"
    /\ HasOperation("b")
    /\ GetOperation("b") # <<>>
    /\ "b" \in Range(RegisteredOperations)
    /\ ~HasOperation("a")
    /\ last.out.status = "UnregisteredOperation"
    /\ last.out.detail[1] = "a"

\* The names other than n whose query reaches n: those bound to a composite
\* that lists n, directly or through other composites.
Reaches(m, n) == n \in ReachedIn({m}, Cardinality(Names))

\* has(m) and get(m) are after the step what they were before.
BindingKept(m) ==
    /\ HasOperation(m)' = HasOperation(m)
    /\ GetOperation(m)' = GetOperation(m)

\* How a query ends: with a result or with a failure of some kind.  The
\* message of UnregisteredOperation lists the registered names and is left
\* out.
Ends(out) == <<out.status, out.result>>

\* query(m, ...) ends after the step as it did before.
QueryKept(m) ==
    \A kwargs \in DbKwargs :
        Ends(DatabaseQuery(m, kwargs, RecursionLimit))'
            = Ends(DatabaseQuery(m, kwargs, RecursionLimit))

\* Registering again the pair that the last call registered leaves the
\* registry as it is.
RegisterIdempotent ==
    [][/\ last.call = "register"
       /\ last'.call = "register"
       /\ last'.name = last.name
       /\ last'.op = last.op
       => registry' = registry]_vars

\* C26 as stated: register(name, op) changes only the binding of that name:
\* for every other name m, has(m), get(m) and the outcome of query(m, ...)
\* are the same before and after; and registering the same pair twice in a
\* row leaves the registry as registering it once.
C26_Original ==
    /\ [][\A n \in Names :
            last'.call = "register" /\ last'.name = n =>
                /\ GetOperation(n)' = <<last'.op>>
                /\ \A m \in Names \ {n} :
                       BindingKept(m) /\ QueryKept(m)]_vars
    /\ RegisterIdempotent

\* How query(name, ...) ends in a database whose registry is reg, the
\* operations and estimators being those of the state: the sub-queries of a
\* composite are resolved in reg.
RECURSIVE EndsIn(_, _, _, _)
RECURSIVE CompositeEndsIn(_, _, _, _, _, _)
EndsIn(reg, name, kwargs, depth) ==
    IF ~DictHas(reg, name) THEN <<"UnregisteredOperation", <<>>>>
    ELSE LET id == DictGet(reg, name)
         IN  IF ops[id].kind # "stub_composite"
             THEN Ends(OperationQuery(id, kwargs, depth))
             ELSE IF depth = 0 THEN <<"RecursionError", <<>>>>
             ELSE CompositeEndsIn(reg, id, 1, kwargs, depth - 1,
                                  PerformanceResult(0, 0))

CompositeEndsIn(reg, id, i, kwargs, depth, total) ==
    IF i > Len(SubOperations(id))
    THEN <<"ok", <<StubCompositeResult(ops[id], total)>>>>
    ELSE LET end == EndsIn(reg, SubOperations(id)[i], kwargs, depth)
         IN  IF end[1] # "ok" THEN end
             ELSE CompositeEndsIn(reg, id, i + 1, kwargs, depth,
                                  PerfAdd(total, end[2][1]))

\* In the registry of the state, EndsIn is how Database.query ends.
EndsInRegistry ==
    \A m \in Names, kwargs \in DbKwargs :
        EndsIn(registry, m, kwargs, RecursionLimit)
            = Ends(DatabaseQuery(m, kwargs, RecursionLimit))

\* Whatever pair is registered next, the queries of the other names that do
\* not reach the registered name end as they do now.
QueriesKeptByRegister ==
    \A n \in Names, id \in DOMAIN ops :
        \A m \in Names \ {n} :
            ~Reaches(m, n) =>
                \A kwargs \in DbKwargs :
                    EndsIn(DictSet(registry, n, id), m, kwargs, RecursionLimit)
                        = EndsIn(registry, m, kwargs, RecursionLimit)

\* C26: register(name, op) changes only the binding of that name: for every
\* other name m, has(m) and get(m) are the same before and after, and so is
\* the outcome of query(m, ...) unless m is bound to a composite whose
\* sub-operation names reach the registered name; and registering the same
\* pair twice in a row leaves the registry as registering it once.  The
\* outcomes are compared through EndsIn: a register step sets the one
\* binding in the registry and leaves the operations and estimators alone,
\* the queries of the registry so changed end as before, and the queries of
\* every state's registry end as EndsIn says.
C26_RegisterFrame ==
    /\ [][\A n \in Names :
            last'.call = "register" /\ last'.name = n =>
                /\ GetOperation(n)' = <<last'.op>>
                /\ registry' = DictSet(registry, n, last'.op)
                /\ <<ops, ests>>' = <<ops, ests>>
                /\ \A m \in Names \ {n} : BindingKept(m)]_vars
    /\ [](EndsInRegistry /\ QueriesKeptByRegister)
    /\ RegisterIdempotent

\* C26 witness: "b" is bound to a composite that lists "a"; "a" has just
\* been registered for the first time, "b" is bound as before, and
\* query("b") returns where it failed with UnregisteredOperation before.
C26_Witness ==
    /\ last.call = "register"
    /\ last.name = "a"
    /\ last.ret = <<>>
    /\ HasOperation("b")
    /\ "a" \in SubNames("b")
    /\ ops[last.op].kind = "stub"
    /\ \E kwargs \in DbKwargs :
           DatabaseQuery("b", kwargs, RecursionLimit).status = "ok"

(***************************************************************************)
(* Properties of SpecOp.                                                   *)
(***************************************************************************)

\* The last call was op.query on an operation whose get_lookup_key accepts
\* the kwargs.
KeyedQuery ==
    /\ last.call = "op.query"
    /\ ~MissingKeyword(ops[last.op].kind, last.kwargs)

LastKey == GetLookupKey(ops[last.op], last.kwargs)

LastHit == KeyedQuery /\ LastKey \in DOMAIN ops[last.op].exact_match_dict

LastMiss == KeyedQuery /\ LastKey \notin DOMAIN ops[last.op].exact_match_dict

\* A custom all-reduce over one participant or a point-to-point transfer in
\* a pipeline of depth one.
ShortCircuits(op) ==
    \/ op.kind = "custom_allreduce" /\ op.cfg._tp_size = 1
    \/ op.kind = "p2p" /\ op.cfg._pp_size = 1

\* The stored row times the scale factor; a row without energy counts 0.
StoredTimesScale(op, key) ==
    LET row == op.exact_match_dict[key]
    IN  PerformanceResult(
            row.latency * op.scale_factor,
            (IF row.energy = <<>> THEN 0 ELSE row.energy[1]) * op.scale_factor)

\* C1 as stated: for an operation of any kind, a query whose key is in the
\* exact-match index returns the stored latency and energy times
\* scale_factor, and predict is not called.
C1_Original ==
    LastHit =>
        /\ last.out.status = "ok"
        /\ last.out.result = <<StoredTimesScale(ops[last.op], LastKey)>>
        /\ last.out.predicts = <<>>

\* C1 amended: the same, for every operation that is not a custom all-reduce
\* with tp_size 1 or a point-to-point with pp_size 1.
C1_ExactMatchScaled ==
    LastHit /\ ~ShortCircuits(ops[last.op]) =>
        /\ last.out.status = "ok"
        /\ last.out.result = <<StoredTimesScale(ops[last.op], LastKey)>>
        /\ last.out.predicts = <<>>

\* C1 witness: a custom all-reduce over two participants with a fitted
\* estimator and scale factor 2 answered a stored row (5, 25) with (10, 50).
C1_Witness ==
    /\ LastHit
    /\ ops[last.op].kind = "custom_allreduce"
    /\ ops[last.op].cfg._tp_size = 2
    /\ ops[last.op].estimator # None
    /\ ests["nn"]._fitted
    /\ last.out.result = <<PerformanceResult(10, 50)>>

\* C2 as stated: for an operation of any kind with no estimator, a query
\* whose key is not in the exact-match index fails with LookupMiss naming
\* the key, and returns nothing.
C2_Original ==
    LastMiss /\ ops[last.op].estimator = None =>
        /\ last.out.status = "LookupMiss"
        /\ last.out.detail = LastKey
        /\ last.out.result = <<>>

\* C2 amended: the same, for every operation that is neither a composite nor
\* a custom all-reduce with tp_size 1 nor a point-to-point with pp_size 1.
C2_MissWithoutEstimatorFails ==
    /\ LastMiss
    /\ ops[last.op].estimator = None
    /\ ops[last.op].kind # "stub_composite"
    /\ ~ShortCircuits(ops[last.op])
    => /\ last.out.status = "LookupMiss"
       /\ last.out.detail = LastKey
       /\ last.out.result = <<>>
       /\ last.out.predicts = <<>>

\* C2 witness: a matrix multiply holding a row for another token count and
\* no estimator failed with LookupMiss.
C2_Witness ==
    /\ LastMiss
    /\ ops[last.op].kind = "gemm"
    /\ ops[last.op].estimator = None
    /\ ops[last.op].exact_match_dict # EmptyDict
    /\ last.out.status = "LookupMiss"
    /\ last.out.detail = <<"float16", 2, 1024, 512>>

\* C6: a custom all-reduce with tp_size 1 and a point-to-point with pp_size 1
\* return (0, 0) to every query, whatever the kwargs, the index, the
\* estimator and the scale factor, and call no estimator.
C6_ShortCircuitZero ==
    last.call = "op.query" /\ ShortCircuits(ops[last.op]) =>
        last.out = Returned(PerformanceResult(0, 0), <<last.op>>, <<>>)

\* C6 witness: a custom all-reduce with tp_size 1, a row at the queried key,
\* an estimator and scale factor 2 returned (0, 0).
C6_Witness ==
    /\ LastHit
    /\ ops[last.op].kind = "custom_allreduce"
    /\ ops[last.op].cfg._tp_size = 1
    /\ ops[last.op].estimator # None
    /\ ops[last.op].scale_factor = 2
    /\ last.out.result = <<PerformanceResult(0, 0)>>

\* An operation constructed with an estimator and a non-empty sample table.
FitsOnInit(op) ==
    /\ op.estimator # None
    /\ op.flat_matrix.present
    /\ op.flat_matrix.rows # <<>>

\* C10: an operation constructed with an estimator and a non-empty sample
\* table has had that estimator fitted by the time the constructor
\* returns -- on its own table -- and no query of such an operation ends in
\* NotFitted.
C10_FittedAtConstruction ==
    /\ \A id \in DOMAIN ops :
           FitsOnInit(ops[id]) => ests[ops[id].estimator]._fitted
    /\ last.call = "__init__" /\ FitsOnInit(ops[last.op]) =>
           ests[ops[last.op].estimator].rows = ops[last.op].flat_matrix.rows
    /\ last.call = "op.query" /\ FitsOnInit(ops[last.op]) =>
           last.out.status # "NotFitted"

\* C10 witness: a query missed the index of an operation constructed with an
\* estimator and a sample table, and was answered by predict.
C10_Witness ==
    /\ LastMiss
    /\ FitsOnInit(ops[last.op])
    /\ last.out.status = "ok"
    /\ last.out.predicts # <<>>

\* An operation constructed with an estimator and no sample rows, whose
\* estimator nobody else has fitted.
EstimatorWithoutTable(op) ==
    /\ op.estimator # None
    /\ IsEmptyData(op.flat_matrix)
    /\ ~ests[op.estimator]._fitted

\* C11 as stated: an operation constructed with an estimator and an absent
\* or empty sample table answers a stored key with the stored value and an
\* absent key with LookupMiss, as it would without an estimator; it never
\* fails with NotFitted.
C11_Original ==
    /\ KeyedQuery
    /\ EstimatorWithoutTable(ops[last.op])
    /\ ~ShortCircuits(ops[last.op])
    => /\ LastHit =>
              last.out.result = <<StoredTimesScale(ops[last.op], LastKey)>>
       /\ LastMiss => last.out.status = "LookupMiss"
       /\ last.out.status # "NotFitted"

(***************************************************************************)
(* Properties of SpecEst.                                                  *)
(***************************************************************************)

\* The flat_matrix the last fit was given.
FitArgument(call) == call.kwargs[1][2]

PredictedBy(e) ==
    /\ last.call = "predict"
    /\ last.name = e
    /\ ests[e]._fitted

\* Row i of the table is as close to the point as any row.
Closest(rows, i, point) ==
    \A j \in DOMAIN rows :
        SqDist(RowPoint(rows[i]), point) <= SqDist(RowPoint(rows[j]), point)

\* C17: a fitted NearestNeighbor asked at a sample's parameters returns that
\* sample's latency and energy; asked anywhere, it returns the latency and
\* the energy of one and the same row, a closest one.
C17_NearestSample ==
    PredictedBy("nn") =>
        LET rows  == ests["nn"].rows
            point == KwValues(last.kwargs)
        IN  /\ last.out.status = "ok"
            /\ \A i \in DOMAIN rows :
                   RowPoint(rows[i]) = point =>
                       last.out.result =
                           <<PerformanceResult(RowLatency(rows[i]), RowEnergy(rows[i]))>>
            /\ \E i \in DOMAIN rows :
                   /\ Closest(rows, i, point)
                   /\ last.out.result =
                          <<PerformanceResult(RowLatency(rows[i]), RowEnergy(rows[i]))>>

\* C17 witness: a NearestNeighbor fitted on the second table was asked at
\* (1, 2), which is no sample, and answered with the row at (2, 2).
C17_Witness ==
    /\ PredictedBy("nn")
    /\ ests["nn"].rows = TableB.rows
    /\ last.kwargs = KwAB(1, 2)
    /\ last.out.result = <<PerformanceResult(4, 60)>>

\* The point lies strictly outside the triangle spanned by the three sample
\* points: beyond one of its edges, on the side away from the third corner.
OutsideHull(rows, point) ==
    LET a == RowPoint(rows[1])
        b == RowPoint(rows[2])
        c == RowPoint(rows[3])
    IN  \E e \in {<<a, b, c>>, <<b, c, a>>, <<c, a, b>>} :
            Cross(e[1], e[2], point) * Cross(e[1], e[2], e[3]) < 0

\* C18: with a LinearInterpolator and a NearestNeighbor fitted on the same
\* table, predict of the LinearInterpolator at a point outside the convex
\* hull returns the latency and the energy the NearestNeighbor predicts there.
C18_FallbackIsNearest ==
    /\ PredictedBy("li")
    /\ ests["nn"]._fitted
    /\ ests["nn"].rows = ests["li"].rows
    /\ OutsideHull(ests["li"].rows, KwValues(last.kwargs))
    => LET nn == NearestNeighborPredict(ests["nn"], last.kwargs)
       IN  /\ last.out.status = "ok"
           /\ last.out.result = <<PerformanceResult(nn.latency, nn.energy)>>

\* C18 witness: both estimators fitted on the first table, the
\* LinearInterpolator asked at (2, 1) outside the triangle answered with the
\* sample at (2, 0).
C18_Witness ==
    /\ PredictedBy("li")
    /\ ests["nn"]._fitted
    /\ ests["li"].rows = TableA.rows
    /\ ests["nn"].rows = TableA.rows
    /\ last.kwargs = KwAB(2, 1)
    /\ OutsideHull(TableA.rows, <<2, 1>>)
    /\ last.out.result = <<PerformanceResult(4, 20)>>

(***************************************************************************)
(* Properties of SpecKind.                                                 *)
(***************************************************************************)

IsComposite(op) == op.kind \in {"stub_composite", "moe_dispatch"}

\* Every composite constructed so far has an empty index and no sample table.
CompositesOwnNoData ==
    \A id \in DOMAIN ops :
        IsComposite(ops[id]) =>
            /\ ops[id].exact_match_dict = EmptyDict
            /\ ~ops[id].flat_matrix.present

\* The last call used a composite's own data path.
OwnPathCall ==
    /\ last.call \in {"load_data", "get_lookup_key", "base.query"}
    /\ IsComposite(ops[last.op])

\* C12 as stated: a composite's index and sample table are always empty,
\* and load_data, get_lookup_key and the base query called on a composite
\* end in AbstractUsage instead of returning.
C12_Original ==
    /\ CompositesOwnNoData
    /\ OwnPathCall => last.out.status = "AbstractUsage"

\* C12 amended: a composite's index and sample table are always empty;
\* load_data on a composite returns the empty index and no table,
\* get_lookup_key returns the empty key, and the base query fails with
\* LookupMiss for the empty key; none of them ends in AbstractUsage.
C12_CompositeOwnPath ==
    /\ CompositesOwnNoData
    /\ OwnPathCall =>
           /\ last.out.status # "AbstractUsage"
           /\ last.call = "load_data" =>
                  last.out.result = << <<EmptyDict, NoMatrix>> >>
           /\ last.call = "get_lookup_key" => last.out.result = << <<>> >>
           /\ last.call = "base.query" =>
                  /\ last.out.status = "LookupMiss"
                  /\ last.out.detail = <<>>

\* C12 witness: load_data called on a summing composite with a
\* sub-operation returned.
C12_Witness ==
    /\ last.call = "load_data"
    /\ ops[last.op].kind = "stub_composite"
    /\ ops[last.op].cfg.sub_operations # <<>>
    /\ last.out.status = "ok"

SizedKinds == {"nccl", "custom_allreduce", "p2p", "elementwise", "embedding"}

\* The last call computed the key of a kind that carries a size, from a
\* token count x.
SizedKeyCall ==
    /\ last.call = "get_lookup_key"
    /\ ops[last.op].kind \in SizedKinds
    /\ KwHas(last.kwargs, "x")

\* The size is the last field of the key in each of these kinds.
SizeField(key) == key[Len(key)]

\* Elements (or values) moved per token.
PerTokenSize(op) ==
    CASE op.kind = "nccl"             -> op.cfg._num_elements_per_token
      [] op.kind = "custom_allreduce" -> op.cfg._h
      [] op.kind = "p2p"              -> op.cfg._h
      [] op.kind = "elementwise"      -> op.cfg._dim_in + op.cfg._dim_out
      [] op.kind = "embedding"        -> op.cfg._column_size

\* Bytes per element: the communication quantization mode's for a
\* collective, half precision everywhere else.
ElementByteWidth(op) ==
    IF op.kind = "nccl" THEN op.cfg._comm_quant_mode.memory ELSE 2

\* C16 as stated: in every kind whose key holds a message or byte size, that
\* field is token_count * per-token-size * element_byte_width for every
\* token count x.
C16_Original ==
    SizedKeyCall =>
        LET op == ops[last.op]
            x  == KwGet(last.kwargs, "x")
        IN  /\ last.out.status = "ok"
            /\ SizeField(last.out.result[1])
                 = x * PerTokenSize(op) * ElementByteWidth(op)

\* C16 amended: for point-to-point and embedding the field is x *
\* per-token-size * 2; for element-wise it is (x floor-divided by
\* scale_num_tokens) * (dim_in + dim_out) * 2; for collective communication
\* and custom all-reduce it is x * per-token element count, without a byte
\* width.
C16_SizeFields ==
    SizedKeyCall =>
        LET op   == ops[last.op]
            x    == KwGet(last.kwargs, "x")
            size == SizeField(last.out.result[1])
        IN  /\ last.out.status = "ok"
            /\ op.kind \in {"p2p", "embedding"} =>
                   size = x * PerTokenSize(op) * 2
            /\ op.kind = "elementwise" =>
                   size = (x \div op.cfg._scale_num_tokens) * PerTokenSize(op) * 2
            /\ op.kind \in {"nccl", "custom_allreduce"} =>
                   size = x * PerTokenSize(op)

\* C16 witness: a collective over 3 elements per token, asked for the key of
\* 2 tokens, put 6 in the message-size field.
C16_Witness ==
    /\ SizedKeyCall
    /\ ops[last.op].kind = "nccl"
    /\ ops[last.op].cfg._num_elements_per_token = 3
    /\ KwGet(last.kwargs, "x") = 2
    /\ SizeField(last.out.result[1]) = 6

(***************************************************************************)
(* Properties of SpecConcrete.                                             *)
(***************************************************************************)

\* The last call was a query answered by a MoE dispatch composite, asked
\* directly or through the database.
MoEDispatchAnswered ==
    /\ IsQuery
    /\ LastTarget # <<>>
    /\ ops[LastTarget[1]].kind = "moe_dispatch"

\* C13 as stated: a query of MoEDispatchV2 issues a Database.query for
\* "nccl" and for "custom_allreduce", and returns their combined result
\* times scale_factor; it fails when one of the two names is not registered.
C13_Original ==
    MoEDispatchAnswered =>
        LET c    == ops[LastTarget[1]]
            subs == c.cfg.sub_operations
        IN  IF \E i \in DOMAIN subs : ~HasOperation(subs[i])
            THEN last.out.status = "UnregisteredOperation"
            ELSE \A i \in DOMAIN subs :
                     \E j \in DOMAIN last.out.resolved :
                         last.out.resolved[j][1] = subs[i]

\* C14: get_lookup_key(M) of a matrix multiply is the 4-tuple (quant_mode
\* name, M floor-divided by scale_num_tokens, n, k); and with the row
\* ("float16", 32, 1024, 512) -> (0.5, 10.0), n = 1024, k = 512, float16,
\* a query of "gemm" through the database with M // scale_num_tokens = 32
\* returns that row times scale_factor: (0.5, 10.0) with the default scales.
C14_GemmKey ==
    /\ /\ last.call = "get_lookup_key"
       /\ ops[last.op].kind = "gemm"
       /\ KwHas(last.kwargs, "M")
       => LET cfg == ops[last.op].cfg
              key == last.out.result[1]
          IN  /\ last.out.status = "ok"
              /\ Len(key) = 4
              /\ key[1] = cfg._quant_mode.name
              /\ key[2] = KwGet(last.kwargs, "M") \div cfg._scale_num_tokens
              /\ key[3] = cfg._n
              /\ key[4] = cfg._k
    /\ /\ last.call = "db.query"
       /\ last.name = "gemm"
       /\ LastTarget # <<>>
       /\ ops[LastTarget[1]].exact_match_dict = GemmTestDict
       => LET op == ops[LastTarget[1]]
              m  == KwGet(last.kwargs, "M") \div op.cfg._scale_num_tokens
          IN  IF m = 32
              THEN last.out.result =
                       <<PerformanceResult(5 * op.scale_factor,
                                           100 * op.scale_factor)>>
              ELSE last.out.status = "LookupMiss"

\* C14 witness: the registration test -- default scales, the row injected,
\* db.query("gemm", M=32) returned (0.5, 10.0).
C14_Witness ==
    /\ last.call = "db.query"
    /\ last.name = "gemm"
    /\ last.kwargs = << <<"M", 32>> >>
    /\ LastTarget # <<>>
    /\ ops[LastTarget[1]].cfg._scale_num_tokens = 1
    /\ ops[LastTarget[1]].scale_factor = 1
    /\ last.out.result = <<PerformanceResult(5, 100)>>

(***************************************************************************)
(* Properties of SpecGemm.                                                 *)
(***************************************************************************)

\* The last query missed the index of an operation whose estimator is
\* fitted.
MissWithFittedEstimator ==
    /\ LastMiss
    /\ ops[last.op].estimator # None
    /\ ests[ops[last.op].estimator]._fitted

\* The point a matrix multiply's estimator is asked at.
GemmPoint(op, kwargs) ==
    <<KwGet(kwargs, "M") \div op.cfg._scale_num_tokens, op.cfg._n, op.cfg._k>>

\* Two matrix multiplies that differ in nothing but the quantization mode.
DifferOnlyInQuantMode(op1, op2) ==
    /\ op1.kind = "gemm"
    /\ op2.kind = "gemm"
    /\ op1.cfg._quant_mode # op2.cfg._quant_mode
    /\ [op1 EXCEPT !.cfg._quant_mode = op2.cfg._quant_mode,
                   !.exact_match_dict = op2.exact_match_dict] = op2

Seen(out) == <<out.status, out.result, out.detail>>

\* C24: context attention and context latent-attention keys carry the
\* caller's prefix as their third field, 0 when omitted, so a query that
\* omits the prefix and one with prefix 0 compute the same key and get the
\* same outcome; the context-attention key is the 9-tuple (batch_size, s,
\* prefix, n, n_kv, kv quant name, fmha quant name, window_size, head_size)
\* and the generation-attention key is the same without prefix and fmha
\* quant, 7 fields.
C24_Original ==
    \A id \in DOMAIN ops : \A kwargs \in AttnNoPrefix :
        LET op   == ops[id]
            b    == KwGet(kwargs, "batch_size")
            s    == KwGet(kwargs, "s")
            with == [p \in AttnPrefixes |-> Append(kwargs, <<"prefix", p>>)]
        IN  /\ op.kind = "context_attention" =>
                   /\ \A p \in AttnPrefixes :
                          GetLookupKey(op, with[p]) =
                              <<b, s, p, op.cfg._n, op.cfg._n_kv,
                                op.cfg._kvcache_quant_mode.name,
                                op.cfg._fmha_quant_mode.name,
                                op.cfg._window_size, op.cfg._head_size>>
                   /\ GetLookupKey(op, kwargs) = GetLookupKey(op, with[0])
                   /\ Seen(OperationQuery(id, kwargs, RecursionLimit))
                          = Seen(OperationQuery(id, with[0], RecursionLimit))
            /\ op.kind = "context_mla" =>
                   /\ \A p \in AttnPrefixes :
                          /\ Len(GetLookupKey(op, with[p])) = 6
                          /\ GetLookupKey(op, with[p])[3] = p
                   /\ GetLookupKey(op, kwargs) = GetLookupKey(op, with[0])
                   /\ Seen(OperationQuery(id, kwargs, RecursionLimit))
                          = Seen(OperationQuery(id, with[0], RecursionLimit))
            /\ op.kind = "generation_attention" =>
                   GetLookupKey(op, kwargs) =
                       <<b, s, op.cfg._n, op.cfg._n_kv,
                         op.cfg._kv_cache_dtype.name,
                         op.cfg._window_size, op.cfg._head_size>>

(***************************************************************************)
(* Properties of SpecKey.                                                  *)
(***************************************************************************)

\* The number of fields of a kind's lookup key.
KeyArity(kind) ==
    CASE kind = "gemm"                 -> 4
      [] kind = "nccl"                 -> 4
      [] kind = "custom_allreduce"     -> 3
      [] kind \in {"p2p", "elementwise", "embedding"} -> 1
      [] kind = "moe"                  -> 10
      [] kind = "context_attention"    -> 9
      [] kind = "generation_attention" -> 7
      [] kind = "context_mla"          -> 6
      [] kind = "generation_mla"       -> 4
      [] kind = "mla_bmm"              -> 4

\* The key fields that are static configuration, as <<position, value at
\* construction>>.
StaticFields(op) ==
    LET c == op.cfg
    IN  CASE op.kind = "gemm" ->
                 << <<1, c._quant_mode.name>>, <<3, c._n>>, <<4, c._k>> >>
          [] op.kind = "nccl" ->
                 << <<1, c._comm_quant_mode.name>>, <<2, c._nccl_op>>,
                    <<3, c._num_gpus>> >>
          [] op.kind = "custom_allreduce" -> << <<2, c._tp_size>> >>
          [] op.kind = "moe" ->
                 << <<2, c._hidden_size>>, <<3, c._inter_size>>, <<4, c._topk>>,
                    <<5, c._num_experts>>, <<6, c._moe_tp_size>>,
                    <<7, c._moe_ep_size>>, <<8, c._quant_mode.name>>,
                    <<9, c._workload_distribution>>, <<10, c._is_context>> >>
          [] op.kind = "context_attention" ->
                 << <<4, c._n>>, <<5, c._n_kv>>, <<6, c._kvcache_quant_mode.name>>,
                    <<7, c._fmha_quant_mode.name>>, <<8, c._window_size>>,
                    <<9, c._head_size>> >>
          [] op.kind = "generation_attention" ->
                 << <<3, c._n>>, <<4, c._n_kv>>, <<5, c._kv_cache_dtype.name>>,
                    <<6, c._window_size>>, <<7, c._head_size>> >>
          [] op.kind = "context_mla" ->
                 << <<4, c._num_heads>>, <<5, c._kvcache_quant_mode.name>>,
                    <<6, c._fmha_quant_mode.name>> >>
          [] op.kind = "generation_mla" ->
                 << <<3, c._num_heads>>, <<4, c._kv_cache_dtype.name>> >>
          [] op.kind = "mla_bmm" ->
                 << <<2, c._num_heads>>, <<3, c._quant_mode.name>>,
                    <<4, c._if_pre>> >>
          [] OTHER -> <<>>

\* The calls that carry every required keyword of the kind.
CompleteKwargs(kind) ==
    { kwargs \in RuntimeKwargs(kind) : ~MissingKeyword(kind, kwargs) }

\* The name a caller's quant_mode keyword puts into the key.
PassedModeName(extra) ==
    IF "name" \in DOMAIN extra[2] THEN extra[2].name ELSE extra[2].str

\* C25 as stated: every kind's key has the kind's arity for all params, its
\* static fields have the values of construction whatever the query passes,
\* and the mixture-of-experts key is the 10-tuple that starts with
\* x * attention_dp_size and has the constructed mode's name as quant_mode.
C25_Original ==
    \A id \in DOMAIN ops :
        LET op == ops[id]
        IN  op.kind \in KeyKinds =>
            \A kwargs \in CompleteKwargs(op.kind) :
                /\ Len(GetLookupKey(op, kwargs)) = KeyArity(op.kind)
                /\ \A extra \in StaticKeywords :
                       LET key == GetLookupKey(op, Append(kwargs, extra))
                       IN  /\ Len(key) = KeyArity(op.kind)
                           /\ key = GetLookupKey(op, kwargs)
                           /\ \A i \in DOMAIN StaticFields(op) :
                                  key[StaticFields(op)[i][1]] = StaticFields(op)[i][2]
                           /\ op.kind = "moe" =>
                                  key[1] = KwGet(kwargs, "x") * op.cfg._attention_dp_size

\* C25: every kind's key has the kind's arity for all params, and its
\* static fields have the values of construction whatever the query passes,
\* but for the quant_mode field of the mixture-of-experts key, which is the
\* name (or string) of the quant_mode keyword when the query passes one and
\* the constructed mode's name otherwise; the mixture-of-experts key is the
\* 10-tuple that starts with x * attention_dp_size.
C25_StaticFields ==
    \A id \in DOMAIN ops :
        LET op == ops[id]
        IN  op.kind \in KeyKinds =>
            \A kwargs \in CompleteKwargs(op.kind) :
                /\ Len(GetLookupKey(op, kwargs)) = KeyArity(op.kind)
                /\ \A i \in DOMAIN StaticFields(op) :
                       GetLookupKey(op, kwargs)[StaticFields(op)[i][1]]
                           = StaticFields(op)[i][2]
                /\ \A extra \in StaticKeywords :
                       LET key      == GetLookupKey(op, Append(kwargs, extra))
                           override == op.kind = "moe" /\ extra[1] = "quant_mode"
                       IN  /\ Len(key) = KeyArity(op.kind)
                           /\ ~override => key = GetLookupKey(op, kwargs)
                           /\ override =>
                                  key = [GetLookupKey(op, kwargs) EXCEPT
                                            ![8] = PassedModeName(extra)]
                /\ op.kind = "moe" =>
                       GetLookupKey(op, kwargs)[1]
                           = KwGet(kwargs, "x") * op.cfg._attention_dp_size

\* C25 witness: a mixture-of-experts operation constructed with float16 was
\* asked for the key of x = 1 with quant_mode = fp8 and answered the
\* 10-tuple that starts with 1 * attention_dp_size and names fp8.
C25_Witness ==
    /\ last.call = "get_lookup_key"
    /\ last.op \in DOMAIN ops
    /\ ops[last.op].kind = "moe"
    /\ ops[last.op].cfg._quant_mode.name = "float16"
    /\ last.kwargs = << <<"x", 1>>, <<"quant_mode", Fp8>> >>
    /\ last.out.result =
           << <<2, 4, 2, 2, 4, 2, 2, "fp8", "uniform", TRUE>> >>

\* The token count an element-wise operation's key is computed from.
KeyTokens(op, kwargs) == KwGet(kwargs, "x") \div op.cfg._scale_num_tokens

\* The last call was a query that asked the estimator.
AskedEstimator == last.call = "op.query" /\ last.out.predicts # <<>>

\* Whenever a query of a kind other than the matrix multiply asks the
\* Estimator, it asks once and with the caller's keywords as given; an
\* element-wise operation's key is the bytes of x floor-divided by
\* scale_num_tokens, and on a miss with an Estimator it calls predict with
\* the caller's x.
RawParamsToEstimator ==
    /\ AskedEstimator /\ ops[last.op].kind # "gemm" =>
           last.out.predicts = << <<ops[last.op].estimator, last.kwargs>> >>
    /\ \A id \in DOMAIN ops :
           ops[id].kind = "elementwise" =>
               \A kwargs \in CompleteKwargs("elementwise") :
                   LET op  == ops[id]
                       out == OperationQuery(id, kwargs, RecursionLimit)
                   IN  /\ GetLookupKey(op, kwargs) =
                              <<KeyTokens(op, kwargs) * op.cfg._dim_in * 2
                                  + KeyTokens(op, kwargs) * op.cfg._dim_out * 2>>
                       /\ IF GetLookupKey(op, kwargs) \in DOMAIN op.exact_match_dict
                          THEN out.predicts = <<>>
                          ELSE op.estimator # None =>
                                   /\ out.predicts = << <<op.estimator, kwargs>> >>
                                   /\ KwValues(out.predicts[1][2])
                                          = <<KwGet(kwargs, "x")>>

\* C29 as stated: the kinds that use the base query hand the Estimator the
\* caller's raw params; an element-wise operation looks up the bytes of
\* x floor-divided by scale_num_tokens and calls predict with x, so the two
\* paths are evaluated at different token counts whenever scale_num_tokens
\* is greater than 1.
C29_Original ==
    /\ RawParamsToEstimator
    /\ \A id \in DOMAIN ops :
           ops[id].kind = "elementwise" /\ ops[id].cfg._scale_num_tokens > 1 =>
               \A kwargs \in CompleteKwargs("elementwise") :
                   KeyTokens(ops[id], kwargs) # KwGet(kwargs, "x")

\* C29: the same, the two paths being evaluated at different token counts
\* whenever scale_num_tokens is greater than 1 and x is at least 1; for
\* x = 0 both token counts are 0.
C29_RawParams ==
    /\ RawParamsToEstimator
    /\ \A id \in DOMAIN ops :
           ops[id].kind = "elementwise" /\ ops[id].cfg._scale_num_tokens > 1 =>
               \A kwargs \in CompleteKwargs("elementwise") :
                   IF KwGet(kwargs, "x") >= 1
                   THEN KeyTokens(ops[id], kwargs) # KwGet(kwargs, "x")
                   ELSE KeyTokens(ops[id], kwargs) = KwGet(kwargs, "x")

\* C29 witness: an element-wise operation with scale_num_tokens 2 and the
\* fitted NearestNeighbor was asked for x = 3; its key is the 10 bytes of
\* one token, it missed, asked the estimator at x = 3 and returned the
\* sample of two tokens, (8, 40), not that of one, (4, 20).
C29_Witness ==
    /\ AskedEstimator
    /\ ops[last.op].kind = "elementwise"
    /\ ops[last.op].cfg._scale_num_tokens = 2
    /\ last.kwargs = << <<"x", 3>> >>
    /\ GetLookupKey(ops[last.op], last.kwargs) = <<10>>
    /\ last.out.predicts = << <<"nn", << <<"x", 3>> >> >> >>
    /\ last.out.result = <<PerformanceResult(8, 40)>>
    /\ EstimatorPredict(ests["nn"], << <<"x", 1>> >>) = Predicted(4, 20)


(***************************************************************************)
(* Properties of SpecConc.                                                 *)
(***************************************************************************)

\* The step is worker w's fetch.
FetchStep(w) == pc[w].at = "fetch" /\ pc'[w] = Idle

\* The step is a query that ran with nothing in between: a whole query, or
\* a check that raised.
SerializedQueryStep == last'.call = "db.query" /\ pc' = pc

\* The step removes the name worker w has checked and not yet fetched.
RemovesChecked(w) ==
    /\ pc[w].at = "fetch"
    /\ pc' = pc
    /\ \/ last'.call = "unregister" /\ last'.name = pc[w].op_name
       \/ last'.call = "clear"

\* C27: Database.query is a membership check followed by a separate fetch,
\* with nothing to keep other calls out.  A query that runs with nothing in
\* between ends with the registered operation's outcome, or with
\* UnregisteredOperation when the name is not registered; after an
\* unregister(name) or clear() between a worker's check and its fetch the
\* name is gone, and a fetch that finds the name gone ends the query with
\* the raw missing-key failure, which is neither of the two; a fetch that
\* finds the name ends with the outcome of the operation then registered.
C27_CheckThenFetch ==
    /\ [][SerializedQueryStep =>
            /\ last'.out # MissingKey(last'.name)
            /\ HasOperation(last'.name) <=>
                   last'.out.status # "UnregisteredOperation"
                   \/ last'.out.resolved # <<>>]_vars
    /\ [][\A w \in Workers :
            /\ RemovesChecked(w) => ~DictHas(registry', pc[w].op_name)
            /\ FetchStep(w) =>
                   /\ last'.call = "db.query"
                   /\ last'.name = pc[w].op_name
                   /\ last'.kwargs = pc[w].kwargs
                   /\ registry' = registry
                   /\ HasOperation(pc[w].op_name)
                          <=> last'.out # MissingKey(pc[w].op_name)]_vars
    /\ [](last.call = "db.query" =>
            IF last.out = MissingKey(last.name)
            THEN /\ ~HasOperation(last.name)
                 /\ last.out.status \notin {"ok", "UnregisteredOperation"}
                 /\ last.out.calls = <<>>
            ELSE last.out = DatabaseQuery(last.name, last.kwargs, RecursionLimit))

\* C27 witness: a worker's query of "a" ended with the raw missing-key
\* failure: "a" was registered at its check and is not at its fetch.
C27_Witness ==
    /\ last.call = "db.query"
    /\ last.name = "a"
    /\ last.out = MissingKey("a")
    /\ last.out.status = "KeyError"
    /\ ~HasOperation("a")
    /\ pc["w1"] = Idle
    /\ ops # <<>>

(***************************************************************************)
(* Properties of SpecShare.                                                *)
(***************************************************************************)

\* The operations constructed with estimator e and a sample table.
FittersOf(e) ==
    { id \in DOMAIN ops : ops[id].estimator = e /\ ~IsEmptyData(ops[id].flat_matrix) }

\* The estimator of the operation was given to no other operation.
NotShared(id) == FittersOf(ops[id].estimator) = {id}

\* The one that was constructed last of them.
LastFitter(e) == CHOOSE id \in FittersOf(e) : \A j \in FittersOf(e) : j <= id

\* What a miss on the operation returns when the estimate is made from the
\* sample table of the operation `from`.
EstimateFrom(id, from, kwargs) ==
    LET p == EstimatorPredict(
                 EstimatorFit(NewEstimator(EstClass(ops[id].estimator)),
                              ops[from].flat_matrix), kwargs)
    IN  PerformanceResult(p.latency * ops[id].scale_factor,
                          p.energy * ops[id].scale_factor)

\* The kwargs whose key the operation's index does not hold.
Misses(id) ==
    { kwargs \in EstKwargs :
          GetLookupKey(ops[id], kwargs) \notin DOMAIN ops[id].exact_match_dict }

\* C28: every construction of an operation with an Estimator and a
\* non-empty sample table refits that Estimator on the table, so the
\* Estimator holds the table of the operation constructed last with it:
\* after two operations are constructed with the same Estimator and different
\* tables, a miss on the first is predicted from the second's table; an
\* operation whose Estimator is not shared is predicted from its own.
C28_SharedEstimatorRefit ==
    /\ [][last'.call = "__init__" =>
            LET self == ops'[last'.op]
            IN  \A e \in EstIds :
                    IF self.estimator = e /\ ~IsEmptyData(self.flat_matrix)
                    THEN /\ ests'[e]._fitted
                         /\ ests'[e].rows = self.flat_matrix.rows
                    ELSE ests'[e] = ests[e]]_vars
    /\ [](\A id \in DOMAIN ops :
            LET e == ops[id].estimator
            IN  /\ ests[e].rows = ops[LastFitter(e)].flat_matrix.rows
                /\ NotShared(id) => ests[e].rows = ops[id].flat_matrix.rows
                /\ \A kwargs \in Misses(id) :
                       /\ OperationQuery(id, kwargs, RecursionLimit).status = "ok"
                       /\ OperationQuery(id, kwargs, RecursionLimit).result
                              = <<EstimateFrom(id, LastFitter(e), kwargs)>>
                       /\ NotShared(id) =>
                              OperationQuery(id, kwargs, RecursionLimit).result
                                  = <<EstimateFrom(id, id, kwargs)>>)

\* C28 witness: two stubs were constructed with the one NearestNeighbor, the
\* first with table A, the second with table B; the first, asked at
\* (0, 0), missed its index and returned twice table B's sample (8, 40),
\* where table A has (2, 10).
C28_Witness ==
    /\ Len(ops) = 2
    /\ ops[1].estimator = "nn"
    /\ ops[2].estimator = "nn"
    /\ ops[1].flat_matrix = TableA
    /\ ops[2].flat_matrix = TableB
    /\ last.call = "op.query"
    /\ last.op = 1
    /\ last.kwargs = KwAB(0, 0)
    /\ last.out.result = <<PerformanceResult(16, 80)>>
    /\ EstimateFrom(1, 1, last.kwargs) = PerformanceResult(4, 20)
    /\ EstimateFrom(1, 2, last.kwargs) = PerformanceResult(16, 80)

====
